---- MODULE Spec2Model ----
(***************************************************************************)
(* Model of the dotagents reconciliation engine: the link plan builder,    *)
(* the link plan applier, the migration scanner and applier, and the       *)
(* backup/undo journal, over an explicit filesystem tree.                  *)
(*                                                                         *)
(* A path is a sequence of components (<<"home", ".claude", "commands">>). *)
(* The filesystem is a function from the existing paths to their nodes:    *)
(*   [t |-> "dir"], [t |-> "file", c |-> content],                         *)
(*   [t |-> "link", text |-> link text, ty |-> symlink type].              *)
(* A link text is [abs |-> BOOLEAN, parts |-> components].                 *)
(***************************************************************************)
EXTENDS Integers, Sequences, FiniteSets, TLC

VARIABLES
    scope,      \* opts.scope of this invocation
    clients,    \* opts.clients of this invocation
    fs,         \* the filesystem tree
    pc,         \* position of the CLI (run loop / runChange / applyMigration / applyLinkPlan)
    run,        \* number of runChange invocations started so far
    force,      \* overwriteConflicts / forceLinks of the current runChange
    migrate,    \* MigrationPlan of the current runChange (scanMigration result)
    link,       \* LinkPlan shown to the operator (runChange, before the apply)
    selections, \* operator selections: conflict targetPath -> candidate or NoChoice
    session,    \* the open BackupSession
    undoLog,    \* finalized sessions, oldest first
    todo,       \* applyMigration: the auto candidates and conflicts still to handle
    idx,        \* applyLinkPlan: index of the next task of plan.tasks
    plan,       \* the LinkPlan built inside applyMigration and being applied
    counters,   \* copied, skipped, applied, lskipped, conflicts, backedUp of the current apply
    log,        \* journal and mutation events of the current apply, in execution order
    fsBefore,   \* the tree when applyMigration started
    fsPlan,     \* the tree when the applied link plan was built
    last        \* result of the last completed operation

vars == <<scope, clients, fs, pc, run, force, migrate, link, selections, session,
          undoLog, todo, idx, plan, counters, log, fsBefore, fsPlan, last>>

-----------------------------------------------------------------------------
(* Bounds of the model *)

MaxRuns == 2          \* runChange invocations per behaviour
MaxPreexisting == 2   \* features present in the initial tree beside the baseline

-----------------------------------------------------------------------------
(* path module *)

RECURSIVE CommonLen(_, _)
CommonLen(a, b) ==
    IF a = <<>> \/ b = <<>> THEN 0
    ELSE IF Head(a) # Head(b) THEN 0
    ELSE 1 + CommonLen(Tail(a), Tail(b))

Ups(n) == [i \in 1..n |-> ".."]

RECURSIVE Normalize(_, _)
Normalize(acc, rest) ==
    IF rest = <<>> THEN acc
    ELSE LET h == Head(rest) IN
         IF h = "." THEN Normalize(acc, Tail(rest))
         ELSE IF h = ".."
              THEN Normalize(IF acc = <<>> THEN <<>> ELSE SubSeq(acc, 1, Len(acc) - 1), Tail(rest))
              ELSE Normalize(Append(acc, h), Tail(rest))

\* path.relative(from, to), both absolute and normalized
pathRelative(from, to) ==
    LET k == CommonLen(from, to)
    IN [abs |-> FALSE, parts |-> Ups(Len(from) - k) \o SubSeq(to, k + 1, Len(to))]

\* path.isAbsolute(link)
isAbsolute(text) == text.abs

\* path.resolve(dir, link)
pathResolve(dir, text) ==
    IF text.abs THEN Normalize(<<>>, text.parts) ELSE Normalize(<<>>, dir \o text.parts)

\* path.dirname / path.basename / path.join
dirname(p) == IF p = <<>> THEN <<>> ELSE SubSeq(p, 1, Len(p) - 1)
basename(p) == p[Len(p)]
join(p, name) == Append(p, name)

IsPrefix(p, q) == Len(p) <= Len(q) /\ SubSeq(q, 1, Len(p)) = p

\* the text of an absolute path
AbsText(p) == [abs |-> TRUE, parts |-> p]

-----------------------------------------------------------------------------
(* resolveRoots *)

homeDir == <<"home">>
projectRoot == <<"proj">>

resolveRoots(sc) ==
    IF sc = "global" THEN
      [ canonicalRoot |-> homeDir \o <<".agents">>,
        claudeRoot |-> homeDir \o <<".claude">>,
        factoryRoot |-> homeDir \o <<".factory">>,
        codexRoot |-> homeDir \o <<".codex">>,
        cursorRoot |-> homeDir \o <<".cursor">>,
        opencodeRoot |-> homeDir \o <<".opencode">>,
        opencodeConfigRoot |-> homeDir \o <<".config", "opencode">>,
        ampcodeConfigRoot |-> homeDir \o <<".config", "amp">>,
        githubRoot |-> projectRoot \o <<".github">>,
        copilotRoot |-> homeDir \o <<".copilot">>,
        geminiRoot |-> homeDir \o <<".gemini">>,
        antigravityRoot |-> homeDir \o <<".gemini">>,
        antigravityConfigRoot |-> homeDir \o <<".config", "antigravity">>,
        windsurfRoot |-> homeDir \o <<".windsurf">>,
        windsurfConfigRoot |-> homeDir \o <<".codeium", "windsurf">>,
        aiderRoot |-> homeDir \o <<".aider">>,
        gooseConfigRoot |-> homeDir \o <<".config", "goose">>,
        kiroRoot |-> homeDir \o <<".kiro">>,
        devinRoot |-> projectRoot \o <<".devin">> ]
    ELSE
      [ canonicalRoot |-> projectRoot \o <<".agents">>,
        claudeRoot |-> projectRoot \o <<".claude">>,
        factoryRoot |-> projectRoot \o <<".factory">>,
        codexRoot |-> projectRoot \o <<".codex">>,
        cursorRoot |-> projectRoot \o <<".cursor">>,
        opencodeRoot |-> projectRoot \o <<".opencode">>,
        opencodeConfigRoot |-> homeDir \o <<".config", "opencode">>,
        ampcodeConfigRoot |-> homeDir \o <<".config", "amp">>,
        githubRoot |-> projectRoot \o <<".github">>,
        copilotRoot |-> homeDir \o <<".copilot">>,
        geminiRoot |-> projectRoot \o <<".gemini">>,
        antigravityRoot |-> projectRoot \o <<".gemini">>,
        antigravityConfigRoot |-> homeDir \o <<".config", "antigravity">>,
        windsurfRoot |-> projectRoot \o <<".windsurf">>,
        windsurfConfigRoot |-> homeDir \o <<".codeium", "windsurf">>,
        aiderRoot |-> projectRoot \o <<".aider">>,
        gooseConfigRoot |-> homeDir \o <<".config", "goose">>,
        kiroRoot |-> projectRoot \o <<".kiro">>,
        devinRoot |-> projectRoot \o <<".devin">> ]

AllClients ==
    {"claude", "factory", "codex", "cursor", "opencode", "ampcode", "github", "gemini",
     "antigravity", "windsurf", "aider", "goose", "kiro", "devin"}

-----------------------------------------------------------------------------
(* utils/fs: probes and mutations of the tree *)

pathExists(f, p) == p \in DOMAIN f

isSymbolicLink(f, p) == p \in DOMAIN f /\ f[p].t = "link"
isDirectory(f, p) == p \in DOMAIN f /\ f[p].t = "dir"
isFile(f, p) == p \in DOMAIN f /\ f[p].t = "file"

Under(f, p) == {q \in DOMAIN f : IsPrefix(p, q)}

\* the subtree at p, keyed by the path below p
Subtree(f, p) == [r \in {SubSeq(q, Len(p) + 1, Len(q)) : q \in Under(f, p)} |-> f[p \o r]]

Ancestors(p) == {SubSeq(p, 1, n) : n \in 1..Len(p)}

\* the ancestors-or-self of p that mkdir -p has to create
MissingDirs(f, p) == {q \in Ancestors(p) : q \notin DOMAIN f}

\* mkdir -p fails when a component exists and is no directory
DirBlocked(f, p) == \E q \in Ancestors(p) : q \in DOMAIN f /\ f[q].t # "dir"

-----------------------------------------------------------------------------
(* The world an operation works on: the tree, the open session, the event  *)
(* log and the pending exception. Once err is set every later call is      *)
(* skipped: the exception propagates to the caller.                        *)

World(f, s, l) == [fs |-> f, sess |-> s, log |-> l, err |-> FALSE]

Event(op, p) == [op |-> op, path |-> p]

Throw(w) == [w EXCEPT !.err = TRUE]

\* the directories mkdir -p creates, outermost first
NewDirs(f, p) ==
    LET n == Cardinality(MissingDirs(f, p))
    IN [i \in 1..n |-> SubSeq(p, 1, Len(p) - n + i)]

\* ensureDir(p): mkdir -p
ensureDir(w, p) ==
    IF w.err THEN w
    ELSE IF DirBlocked(w.fs, p) THEN Throw(w)
    ELSE LET new == NewDirs(w.fs, p)
             made == {new[i] : i \in 1..Len(new)}
         IN [w EXCEPT !.fs = [q \in DOMAIN w.fs \cup made |->
                                 IF q \in made THEN [t |-> "dir"] ELSE w.fs[q]],
                      !.log = w.log \o [i \in 1..Len(new) |-> Event("mkdir", new[i])]]

\* a write of one node at p, whose parent exists
PutNode(w, op, p, node) ==
    IF w.err THEN w
    ELSE [w EXCEPT !.fs = [q \in DOMAIN w.fs \cup {p} |-> IF q = p THEN node ELSE w.fs[q]],
                   !.log = Append(w.log, Event(op, p))]

\* ensureFile(p, content): the file is written only when nothing is there
ensureFile(w, p, content) ==
    IF w.err THEN w
    ELSE IF pathExists(w.fs, p) THEN w
    ELSE PutNode(ensureDir(w, dirname(p)), "write", p, [t |-> "file", c |-> content])

\* removePath(p): rm -rf; a symbolic link is unlinked, not followed
removePath(w, p) ==
    IF w.err THEN w
    ELSE IF ~pathExists(w.fs, p) THEN w
    ELSE [w EXCEPT !.fs = [q \in DOMAIN w.fs \ Under(w.fs, p) |-> w.fs[q]],
                   !.log = Append(w.log, Event("remove", p))]

\* fs.promises.symlink(text, target, type): EEXIST when the target is there
symlink(w, text, target, ty) ==
    IF w.err THEN w
    ELSE IF pathExists(w.fs, target) \/ ~isDirectory(w.fs, dirname(target)) THEN Throw(w)
    ELSE PutNode(w, "symlink", target, [t |-> "link", text |-> text, ty |-> ty])

\* the subtree sub planted at p (p itself included), replacing what is below p
Plant(f, p, sub) ==
    LET kept == DOMAIN f \ Under(f, p)
        new == {p \o r : r \in DOMAIN sub}
    IN [q \in kept \cup new |-> IF q \in new THEN sub[SubSeq(q, Len(p) + 1, Len(q))] ELSE f[q]]

\* copyFile(src, dest, overwrite)
copyFile(w, src, dest, overwrite) ==
    IF w.err THEN w
    ELSE IF ~isFile(w.fs, src) THEN Throw(w)
    ELSE IF pathExists(w.fs, dest) /\ ~overwrite THEN w
    ELSE IF isDirectory(w.fs, dest) THEN Throw(w)
    ELSE PutNode(ensureDir(w, dirname(dest)), "copy", dest, w.fs[src])

\* copyDir(src, dest, overwrite): the entries of src are written over those of dest
copyDir(w, src, dest, overwrite) ==
    IF w.err THEN w
    ELSE IF ~isDirectory(w.fs, src) THEN Throw(w)
    ELSE LET w1 == ensureDir(w, dest)
             sub == Subtree(w.fs, src)
             new == {r \in DOMAIN sub : r # <<>> /\ (overwrite \/ (dest \o r) \notin DOMAIN w1.fs)}
         IN IF w1.err THEN w1
            ELSE [w1 EXCEPT !.fs = [q \in DOMAIN w1.fs \cup {dest \o r : r \in new} |->
                                       IF \E r \in new : q = dest \o r
                                       THEN sub[SubSeq(q, Len(dest) + 1, Len(q))]
                                       ELSE w1.fs[q]],
                            !.log = Append(w1.log, Event("copy", dest))]

-----------------------------------------------------------------------------
(* backup journal *)

EmptySession == [created |-> <<>>, backedUp |-> <<>>]

\* backupPath(p, session): an existing path is moved into the session's
\* directory and the pair original -> backup is recorded; the result says
\* whether a backup happened
backupPath(w, p) ==
    IF w.err THEN w
    ELSE IF ~pathExists(w.fs, p) THEN w
    ELSE [w EXCEPT !.sess.backedUp = Append(w.sess.backedUp,
                                            [originalPath |-> p, snap |-> Subtree(w.fs, p)]),
                   !.fs = [q \in DOMAIN w.fs \ Under(w.fs, p) |-> w.fs[q]],
                   !.log = Append(w.log, Event("backup", p))]

didBackup(w, p) == ~w.err /\ pathExists(w.fs, p)

\* recordCreatedPath(p, kind, session)
recordCreatedPath(w, p, kind) ==
    IF w.err THEN w
    ELSE [w EXCEPT !.sess.created = Append(w.sess.created, [path |-> p, kind |-> kind]),
                   !.log = Append(w.log, Event("created", p))]

-----------------------------------------------------------------------------
(* getMappings *)

\* [...].filter(Boolean) over a table of <<client, path>> rows
Enabled(table, cl) ==
    LET has(row) == row[1] \in cl
        rows == SelectSeq(table, has)
    IN [i \in 1..Len(rows) |-> rows[i][2]]

Mapping(name, source, targets, kind) ==
    [name |-> name, source |-> source, targets |-> targets, kind |-> kind]

agentTargets(roots, cl) ==
    Enabled(<< <<"factory", join(roots.factoryRoot, "AGENTS.md")>>,
               <<"codex", join(roots.codexRoot, "AGENTS.md")>>,
               <<"opencode", join(roots.opencodeConfigRoot, "AGENTS.md")>>,
               <<"ampcode", join(roots.ampcodeConfigRoot, "AGENTS.md")>>,
               <<"windsurf", join(roots.windsurfRoot, "AGENTS.md")>>,
               <<"aider", join(roots.aiderRoot, "AGENTS.md")>>,
               <<"kiro", join(roots.kiroRoot, "AGENTS.md")>>,
               <<"devin", join(roots.devinRoot, "AGENTS.md")>> >>, cl)

commandTargets(roots, cl) ==
    Enabled(<< <<"claude", join(roots.claudeRoot, "commands")>>,
               <<"factory", join(roots.factoryRoot, "commands")>>,
               <<"codex", join(roots.codexRoot, "prompts")>>,
               <<"opencode", join(roots.opencodeRoot, "commands")>>,
               <<"cursor", join(roots.cursorRoot, "commands")>>,
               <<"gemini", join(roots.geminiRoot, "commands")>>,
               <<"antigravity", join(roots.antigravityRoot, "commands")>>,
               <<"windsurf", join(roots.windsurfRoot, "commands")>>,
               <<"aider", join(roots.aiderRoot, "commands")>>,
               <<"goose", join(roots.gooseConfigRoot, "commands")>>,
               <<"kiro", join(roots.kiroRoot, "commands")>> >>, cl)

hookTargets(roots, cl) ==
    Enabled(<< <<"claude", join(roots.claudeRoot, "hooks")>>,
               <<"factory", join(roots.factoryRoot, "hooks")>> >>, cl)

skillTargets(sc, roots, cl) ==
    Enabled(<< <<"claude", join(roots.claudeRoot, "skills")>>,
               <<"factory", join(roots.factoryRoot, "skills")>>,
               <<"codex", join(roots.codexRoot, "skills")>>,
               <<"opencode", join(roots.opencodeRoot, "skills")>>,
               <<"cursor", join(roots.cursorRoot, "skills")>>,
               <<"github", IF sc = "global" THEN join(roots.copilotRoot, "skills")
                                            ELSE join(roots.githubRoot, "skills")>>,
               <<"gemini", join(roots.geminiRoot, "skills")>>,
               <<"antigravity", join(roots.antigravityRoot, "skills")>>,
               <<"windsurf", join(roots.windsurfRoot, "skills")>>,
               <<"aider", join(roots.aiderRoot, "skills")>>,
               <<"goose", join(roots.gooseConfigRoot, "skills")>>,
               <<"kiro", join(roots.kiroRoot, "skills")>> >>, cl)

\* claudeSource without the override
claudeSourceFallback(f, canonical) == join(canonical, "AGENTS.md")

claudeSource(f, canonical) ==
    IF pathExists(f, join(canonical, "CLAUDE.md")) THEN join(canonical, "CLAUDE.md")
                                                   ELSE join(canonical, "AGENTS.md")

geminiSource(f, canonical) ==
    IF pathExists(f, join(canonical, "GEMINI.md")) THEN join(canonical, "GEMINI.md")
                                                   ELSE join(canonical, "AGENTS.md")

getMappings(f, sc, cl) ==
    LET roots == resolveRoots(sc)
        canonical == roots.canonicalRoot
        includeAgentFiles == sc = "global"
    IN (IF includeAgentFiles /\ "claude" \in cl
        THEN << Mapping("claude-md", claudeSource(f, canonical),
                        << join(roots.claudeRoot, "CLAUDE.md") >>, "file") >>
        ELSE <<>>)
       \o
       (IF includeAgentFiles /\ "gemini" \in cl
        THEN << Mapping("gemini-md", geminiSource(f, canonical),
                        << join(roots.geminiRoot, "GEMINI.md") >>, "file") >>
        ELSE <<>>)
       \o
       (IF includeAgentFiles /\ "antigravity" \in cl
        THEN << Mapping("antigravity-md", geminiSource(f, canonical),
                        << join(roots.geminiRoot, "GEMINI.md") >>, "file") >>
        ELSE <<>>)
       \o
       (IF includeAgentFiles /\ Len(agentTargets(roots, cl)) > 0
        THEN << Mapping("agents-md", join(canonical, "AGENTS.md"),
                        agentTargets(roots, cl), "file") >>
        ELSE <<>>)
       \o
       << Mapping("commands", join(canonical, "commands"), commandTargets(roots, cl), "dir"),
          Mapping("hooks", join(canonical, "hooks"), hookTargets(roots, cl), "dir"),
          Mapping("skills", join(canonical, "skills"), skillTargets(sc, roots, cl), "dir") >>

-----------------------------------------------------------------------------
(* plan: buildLinkPlan *)

NoPath == <<"-">>

EnsureSource(p, kind) ==
    [type |-> "ensure-source", path |-> p, kind |-> kind]
LinkTask(source, target, kind, replace) ==
    [type |-> "link", source |-> source, target |-> target, kind |-> kind,
     replaceSymlink |-> replace]
ConflictTask(source, target, reason, detail, kind) ==
    [type |-> "conflict", source |-> source, target |-> target, reason |-> reason,
     detail |-> detail, kind |-> kind]
NoopTask(source, target) ==
    [type |-> "noop", source |-> source, target |-> target]

\* getLinkTargetAbsolute(target): the referent of the link, relative texts
\* resolved against the link's directory, absolute texts as stored
getLinkTargetAbsolute(f, target) ==
    IF ~isSymbolicLink(f, target) THEN NoPath
    ELSE IF ~isAbsolute(f[target].text) THEN pathResolve(dirname(target), f[target].text)
    ELSE f[target].text.parts

ensureSourceTask(f, source, kind) ==
    IF ~pathExists(f, source) THEN << EnsureSource(source, kind) >>
    ELSE IF kind = "file" /\ isDirectory(f, source)
         THEN << ConflictTask(source, source, "Expected file but found directory", NoPath, kind) >>
    ELSE IF kind = "dir" /\ ~isDirectory(f, source)
         THEN << ConflictTask(source, source, "Expected directory but found file", NoPath, kind) >>
    ELSE <<>>


\* analyzeTarget with a regular file at the target taken for a free target
analyzeTargetOverFile(f, source, target, kind, relinkableSources) ==
    IF ~pathExists(f, target) \/ isFile(f, target) THEN LinkTask(source, target, kind, FALSE)
    ELSE IF isSymbolicLink(f, target) THEN
        LET rawLink == f[target].text
            resolved == getLinkTargetAbsolute(f, target)
        IN IF Normalize(<<>>, resolved) = Normalize(<<>>, source)
           THEN IF rawLink # pathRelative(dirname(target), source)
                THEN LinkTask(source, target, kind, TRUE)
                ELSE NoopTask(source, target)
           ELSE IF Normalize(<<>>, resolved) \in {Normalize(<<>>, p) : p \in relinkableSources}
                THEN LinkTask(source, target, kind, TRUE)
                ELSE ConflictTask(source, target, "Symlink points elsewhere", resolved, kind)
    ELSE ConflictTask(source, target, "Target exists and is not a symlink (directory)",
                      NoPath, kind)

\* analyzeTarget comparing the stored text with the absolute source path
analyzeTargetAbsolute(f, source, target, kind, relinkableSources) ==
    IF ~pathExists(f, target) THEN LinkTask(source, target, kind, FALSE)
    ELSE IF isSymbolicLink(f, target) THEN
        LET rawLink == f[target].text
            resolved == getLinkTargetAbsolute(f, target)
        IN IF Normalize(<<>>, resolved) = Normalize(<<>>, source)
           THEN IF rawLink # AbsText(source)
                THEN LinkTask(source, target, kind, TRUE)
                ELSE NoopTask(source, target)
           ELSE IF Normalize(<<>>, resolved) \in {Normalize(<<>>, p) : p \in relinkableSources}
                THEN LinkTask(source, target, kind, TRUE)
                ELSE ConflictTask(source, target, "Symlink points elsewhere", resolved, kind)
    ELSE ConflictTask(source, target,
                      IF isDirectory(f, target) THEN "Target exists and is not a symlink (directory)"
                      ELSE IF isFile(f, target) THEN "Target exists and is not a symlink (file)"
                      ELSE "Target exists and is not a symlink (path)",
                      NoPath, kind)

analyzeTarget(f, source, target, kind, relinkableSources) ==
    IF ~pathExists(f, target) THEN LinkTask(source, target, kind, FALSE)
    ELSE IF isSymbolicLink(f, target) THEN
        LET rawLink == f[target].text
            resolved == getLinkTargetAbsolute(f, target)
        IN IF Normalize(<<>>, resolved) = Normalize(<<>>, source)
           THEN IF rawLink # pathRelative(dirname(target), source)
                THEN LinkTask(source, target, kind, TRUE)
                ELSE NoopTask(source, target)
           ELSE IF Normalize(<<>>, resolved) \in {Normalize(<<>>, p) : p \in relinkableSources}
                THEN LinkTask(source, target, kind, TRUE)
                ELSE ConflictTask(source, target, "Symlink points elsewhere", resolved, kind)
    ELSE ConflictTask(source, target,
                      IF isDirectory(f, target) THEN "Target exists and is not a symlink (directory)"
                      ELSE IF isFile(f, target) THEN "Target exists and is not a symlink (file)"
                      ELSE "Target exists and is not a symlink (path)",
                      NoPath, kind)

\* relinkable with one set of alternates for every mapping
relinkableEveryMapping(mapping) ==
    {join(dirname(mapping.source), "AGENTS.md"), join(dirname(mapping.source), "CLAUDE.md"),
     join(dirname(mapping.source), "GEMINI.md")}

\* relinkableSources of a mapping
relinkable(mapping) ==
    IF mapping.name = "claude-md"
    THEN {join(dirname(mapping.source), "AGENTS.md"), join(dirname(mapping.source), "CLAUDE.md")}
    ELSE IF mapping.name = "gemini-md" \/ mapping.name = "antigravity-md"
    THEN {join(dirname(mapping.source), "AGENTS.md"), join(dirname(mapping.source), "GEMINI.md")}
    ELSE {}

\* mappingTasks with the source task pushed after the target tasks
mappingTasksSourceLast(f, mapping) ==
    [i \in 1..Len(mapping.targets) |->
        analyzeTarget(f, mapping.source, mapping.targets[i], mapping.kind, relinkable(mapping))]
    \o ensureSourceTask(f, mapping.source, mapping.kind)

\* the tasks of one mapping: its source task, then one task per target
mappingTasks(f, mapping) ==
    ensureSourceTask(f, mapping.source, mapping.kind)
    \o [i \in 1..Len(mapping.targets) |->
          analyzeTarget(f, mapping.source, mapping.targets[i], mapping.kind, relinkable(mapping))]

RECURSIVE Flatten(_)
Flatten(ss) == IF ss = <<>> THEN <<>> ELSE Head(ss) \o Flatten(Tail(ss))

isConflict(t) == t.type = "conflict"
\* isChange without the ensure-source tasks
isChangeLinkOnly(t) == t.type = "link"

isChange(t) == t.type = "link" \/ t.type = "ensure-source"

buildLinkPlan(f, sc, cl) ==
    LET mappings == getMappings(f, sc, cl)
        tasks == Flatten([i \in 1..Len(mappings) |-> mappingTasks(f, mappings[i])])
    IN [tasks |-> tasks,
        conflicts |-> SelectSeq(tasks, isConflict),
        changes |-> SelectSeq(tasks, isChange)]

-----------------------------------------------------------------------------
(* apply: applyLinkPlan *)

DEFAULT_AGENTS == "# AGENTS"

createSource(w, task) ==
    IF task.kind = "dir" THEN ensureDir(w, task.path)
    ELSE ensureFile(w, task.path, DEFAULT_AGENTS)


\* makeLink storing the absolute source path
makeLinkAbsolute(w, source, target, kind) ==
    symlink(ensureDir(w, dirname(target)), AbsText(source), target,
            IF kind = "dir" THEN "junction" ELSE "file")

\* the link itself: parent directory, then the symlink with the text computed
\* relative to the target's directory
makeLink(w, source, target, kind) ==
    symlink(ensureDir(w, dirname(target)),
            pathRelative(dirname(target), source), target,
            IF kind = "dir" THEN "junction" ELSE "file")

\* createLink computing the link text from the target instead of from the
\* target's directory
createLinkFromTarget(w, source, target, kind, overwrite) ==
    LET put(v) == symlink(ensureDir(v, dirname(target)), pathRelative(target, source), target,
                          IF kind = "dir" THEN "junction" ELSE "file")
    IN IF pathExists(w.fs, target) THEN
           IF ~overwrite THEN [w |-> w, created |-> FALSE, backedUp |-> FALSE]
           ELSE LET w1 == backupPath(w, target)
                    w2 == IF pathExists(w1.fs, target) THEN removePath(w1, target) ELSE w1
                IN [w |-> put(w2), created |-> TRUE, backedUp |-> didBackup(w, target)]
       ELSE [w |-> put(w), created |-> TRUE, backedUp |-> FALSE]

createLink(w, source, target, kind, overwrite) ==
    IF pathExists(w.fs, target) THEN
        IF ~overwrite THEN [w |-> w, created |-> FALSE, backedUp |-> FALSE]
        ELSE LET w1 == backupPath(w, target)
                 w2 == IF pathExists(w1.fs, target) THEN removePath(w1, target) ELSE w1
             IN [w |-> makeLink(w2, source, target, kind), created |-> TRUE,
                 backedUp |-> didBackup(w, target)]
    ELSE [w |-> makeLink(w, source, target, kind), created |-> TRUE, backedUp |-> FALSE]

ZeroCounters ==
    [copied |-> 0, skipped |-> 0, applied |-> 0, lskipped |-> 0, conflicts |-> 0, backedUp |-> 0]

Inc(b) == IF b THEN 1 ELSE 0

\* forceEligible without the comparison of target and source
forceEligibleAnyTarget(task, f) == f /\ task.kind \in {"file", "dir"}

\* a conflict task is acted on only when forced and not a source conflict
forceEligible(task, f) == f /\ task.target # task.source /\ task.kind \in {"file", "dir"}


\* applyConflict without the test of the force flag
applyConflictForced(w, c, task, f) ==
    IF forceEligible(task, TRUE)
    THEN LET r == createLink(w, task.source, task.target, task.kind, TRUE)
         IN [w |-> r.w,
             c |-> [c EXCEPT !.conflicts = @ + 1, !.backedUp = @ + Inc(r.backedUp),
                             !.applied = @ + 1]]
    ELSE [w |-> w, c |-> [c EXCEPT !.conflicts = @ + 1]]

applyConflict(w, c, task, f) ==
    IF forceEligible(task, f)
    THEN LET r == createLink(w, task.source, task.target, task.kind, TRUE)
         IN [w |-> r.w,
             c |-> [c EXCEPT !.conflicts = @ + 1, !.backedUp = @ + Inc(r.backedUp),
                             !.applied = @ + 1]]
    ELSE [w |-> w, c |-> [c EXCEPT !.conflicts = @ + 1]]

applyEnsureSource(w, c, task) ==
    [w |-> recordCreatedPath(createSource(w, task), task.path, task.kind),
     c |-> [c EXCEPT !.applied = @ + 1]]


\* useForce without the replaceSymlink case
useForceFlagOnly(w, task, f) == f

\* useForce trusting the plan: no fresh check of the target
useForceStalePlan(w, task, f) == f \/ task.replaceSymlink

\* the fresh check of a replaceSymlink task: the target still is a symlink
useForce(w, task, f) ==
    f \/ (task.replaceSymlink /\ pathExists(w.fs, task.target) /\ isSymbolicLink(w.fs, task.target))

\* applyLink recording every link it creates, without the test of before
applyLinkRecordAlways(w, c, task, f) ==
    LET before == pathExists(w.fs, task.target)
        uf == useForce(w, task, f)
        r == createLink(w, task.source, task.target, task.kind, uf)
        w1 == IF r.created THEN recordCreatedPath(r.w, task.target, "symlink") ELSE r.w
    IN [w |-> w1,
        c |-> [c EXCEPT !.backedUp = @ + Inc(r.backedUp),
                        !.lskipped = @ + Inc(before /\ ~uf),
                        !.applied = @ + Inc(~(before /\ ~uf))]]

applyLink(w, c, task, f) ==
    LET before == pathExists(w.fs, task.target)
        uf == useForce(w, task, f)
        r == createLink(w, task.source, task.target, task.kind, uf)
        w1 == IF ~before /\ r.created THEN recordCreatedPath(r.w, task.target, "symlink") ELSE r.w
    IN [w |-> w1,
        c |-> [c EXCEPT !.backedUp = @ + Inc(r.backedUp),
                        !.lskipped = @ + Inc(before /\ ~uf),
                        !.applied = @ + Inc(~(before /\ ~uf))]]

\* applyTask leaving the counters alone on a noop
applyTaskNoopUncounted(w, c, task, f) ==
    IF task.type = "conflict" THEN applyConflict(w, c, task, f)
    ELSE IF task.type = "noop" THEN [w |-> w, c |-> c]
    ELSE IF task.type = "ensure-source" THEN applyEnsureSource(w, c, task)
    ELSE applyLink(w, c, task, f)

\* one iteration of the loop of applyLinkPlan
applyTask(w, c, task, f) ==
    IF task.type = "conflict" THEN applyConflict(w, c, task, f)
    ELSE IF task.type = "noop" THEN [w |-> w, c |-> [c EXCEPT !.lskipped = @ + 1]]
    ELSE IF task.type = "ensure-source" THEN applyEnsureSource(w, c, task)
    ELSE applyLink(w, c, task, f)

-----------------------------------------------------------------------------
(* migrate: scanMigration *)

Candidate(label, targetPath, kind, action, sourcePath) ==
    [label |-> label, targetPath |-> targetPath, kind |-> kind, action |-> action,
     sourcePath |-> sourcePath]

\* Sources with the rows in the reverse of the table order
SourcesReversed(table, cl) ==
    LET has(row) == row[1] \in cl
        rows == SelectSeq(table, has)
    IN [i \in 1..Len(rows) |-> [label |-> rows[Len(rows) + 1 - i][2],
                                at |-> rows[Len(rows) + 1 - i][3]]]

\* [...].filter(Boolean) over a table of <<client, label, path>> rows
Sources(table, cl) ==
    LET has(row) == row[1] \in cl
        rows == SelectSeq(table, has)
    IN [i \in 1..Len(rows) |-> [label |-> rows[i][2], at |-> rows[i][3]]]

commandSources(roots, cl) ==
    Sources(<< <<"claude", "Claude commands", join(roots.claudeRoot, "commands")>>,
               <<"factory", "Factory commands", join(roots.factoryRoot, "commands")>>,
               <<"codex", "Codex prompts", join(roots.codexRoot, "prompts")>>,
               <<"cursor", "Cursor commands", join(roots.cursorRoot, "commands")>>,
               <<"opencode", "OpenCode commands", join(roots.opencodeRoot, "commands")>>,
               <<"gemini", "Gemini commands", join(roots.geminiRoot, "commands")>>,
               <<"antigravity", "Antigravity commands", join(roots.antigravityRoot, "commands")>>,
               <<"windsurf", "Windsurf commands", join(roots.windsurfRoot, "commands")>>,
               <<"aider", "Aider commands", join(roots.aiderRoot, "commands")>>,
               <<"goose", "Goose commands", join(roots.gooseConfigRoot, "commands")>>,
               <<"kiro", "Kiro commands", join(roots.kiroRoot, "commands")>> >>, cl)

hookSources(roots, cl) ==
    Sources(<< <<"claude", "Claude hooks", join(roots.claudeRoot, "hooks")>>,
               <<"factory", "Factory hooks", join(roots.factoryRoot, "hooks")>> >>, cl)

skillSources(sc, roots, cl) ==
    Sources(<< <<"claude", "Claude skills", join(roots.claudeRoot, "skills")>>,
               <<"factory", "Factory skills", join(roots.factoryRoot, "skills")>>,
               <<"codex", "Codex skills", join(roots.codexRoot, "skills")>>,
               <<"cursor", "Cursor skills", join(roots.cursorRoot, "skills")>>,
               <<"opencode", "OpenCode skills", join(roots.opencodeRoot, "skills")>>,
               IF sc = "global"
               THEN <<"github", "GitHub Copilot skills", join(roots.copilotRoot, "skills")>>
               ELSE <<"github", "GitHub skills", join(roots.githubRoot, "skills")>>,
               <<"gemini", "Gemini skills", join(roots.geminiRoot, "skills")>>,
               <<"antigravity", "Antigravity skills", join(roots.antigravityRoot, "skills")>>,
               <<"windsurf", "Windsurf skills", join(roots.windsurfRoot, "skills")>>,
               <<"aider", "Aider skills", join(roots.aiderRoot, "skills")>>,
               <<"goose", "Goose skills", join(roots.gooseConfigRoot, "skills")>>,
               <<"kiro", "Kiro skills", join(roots.kiroRoot, "skills")>> >>, cl)

agentSources(sc, roots, cl) ==
    IF sc # "global" THEN <<>>
    ELSE Sources(<< <<"claude", "Claude AGENTS.md", join(roots.claudeRoot, "AGENTS.md")>>,
                    <<"factory", "Factory AGENTS.md", join(roots.factoryRoot, "AGENTS.md")>>,
                    <<"codex", "Codex AGENTS.md", join(roots.codexRoot, "AGENTS.md")>>,
                    <<"opencode", "OpenCode AGENTS.md", join(roots.opencodeConfigRoot, "AGENTS.md")>>,
                    <<"ampcode", "Ampcode AGENTS.md", join(roots.ampcodeConfigRoot, "AGENTS.md")>>,
                    <<"windsurf", "Windsurf AGENTS.md", join(roots.windsurfRoot, "AGENTS.md")>>,
                    <<"aider", "Aider AGENTS.md", join(roots.aiderRoot, "AGENTS.md")>>,
                    <<"kiro", "Kiro AGENTS.md", join(roots.kiroRoot, "AGENTS.md")>>,
                    <<"devin", "Devin AGENTS.md", join(roots.devinRoot, "AGENTS.md")>> >>, cl)

claudeSources(sc, roots, cl) ==
    IF sc # "global" THEN <<>>
    ELSE Sources(<< <<"claude", "Claude CLAUDE.md", join(roots.claudeRoot, "CLAUDE.md")>> >>, cl)

geminiSources(sc, roots, cl) ==
    IF sc # "global" THEN <<>>
    ELSE Sources(<< <<"gemini", "Gemini GEMINI.md", join(roots.geminiRoot, "GEMINI.md")>>,
                    <<"antigravity", "Antigravity GEMINI.md",
                      join(roots.antigravityRoot, "GEMINI.md")>> >>, cl)

\* the order in which readdir lists the names of a directory
ReaddirOrder ==
    << "AGENTS.md", "CLAUDE.md", "GEMINI.md", "SKILL.md", "a.md", "b.md", "h.sh",
       "commands", "hooks", "skills", "one", "two", "other" >>

Children(f, dir, kind) ==
    LET is(name) == join(dir, name) \in DOMAIN f /\ f[join(dir, name)].t = kind
        names == SelectSeq(ReaddirOrder, is)
    IN [i \in 1..Len(names) |-> join(dir, names[i])]

\* listFiles(dir): the immediate children that are regular files; readdir
\* follows a symbolic link at dir and the names are joined to dir
listFiles(f, dir) ==
    LET real == IF isSymbolicLink(f, dir) THEN pathResolve(dirname(dir), f[dir].text) ELSE dir
        files == Children(f, real, "file")
    IN [i \in 1..Len(files) |-> join(dir, basename(files[i]))]

\* scanned without the test for a symbolic link
scannedAnyKind(f, p) == pathExists(f, p)

\* a source location is scanned when it exists and is no symbolic link
scanned(f, p) == pathExists(f, p) /\ ~isSymbolicLink(f, p)

\* findSkillDirs(dir): the directories at or below dir that hold a SKILL.md
RECURSIVE findSkillDirs(_, _)
findSkillDirs(f, dir) ==
    (IF isFile(f, join(dir, "SKILL.md")) THEN << dir >> ELSE <<>>)
    \o LET subs == Children(f, dir, "dir")
       IN Flatten([i \in 1..Len(subs) |-> findSkillDirs(f, subs[i])])

\* parseSkillFile(path): the declared name; "" stands for the parse failure
parseSkillFile(f, p) ==
    IF ~isFile(f, p) THEN ""
    ELSE IF f[p].c = "skill:alpha" THEN "alpha"
    ELSE IF f[p].c = "skill:beta" THEN "beta"
    ELSE ""

\* the candidates of a category of flat files (commands, hooks)
fileCandidates(f, srcs, canonicalDir) ==
    Flatten([i \in 1..Len(srcs) |->
        IF ~scanned(f, srcs[i].at) THEN <<>>
        ELSE LET files == listFiles(f, srcs[i].at)
             IN [j \in 1..Len(files) |->
                   Candidate(srcs[i].label, join(canonicalDir, basename(files[j])),
                             "file", "copy", files[j])]])

\* skillCandidates without the try/catch around the parser: the descriptor
\* that does not parse ends the loop over the skill directories of its client
skillCandidatesNoCatch(f, srcs, canonicalSkills) ==
    Flatten([i \in 1..Len(srcs) |->
        IF ~scanned(f, srcs[i].at) THEN <<>>
        ELSE LET dirs == findSkillDirs(f, srcs[i].at)
                 valid(d) == parseSkillFile(f, join(d, "SKILL.md")) # ""
             IN IF \E j \in 1..Len(dirs) : ~valid(dirs[j]) THEN <<>>
                ELSE [j \in 1..Len(dirs) |->
                        Candidate(srcs[i].label,
                                  join(canonicalSkills, parseSkillFile(f, join(dirs[j], "SKILL.md"))),
                                  "dir", "copy", dirs[j])]])

skillCandidates(f, srcs, canonicalSkills) ==
    Flatten([i \in 1..Len(srcs) |->
        IF ~scanned(f, srcs[i].at) THEN <<>>
        ELSE LET dirs == findSkillDirs(f, srcs[i].at)
                 valid(d) == parseSkillFile(f, join(d, "SKILL.md")) # ""
                 ok == SelectSeq(dirs, valid)
             IN [j \in 1..Len(ok) |->
                   Candidate(srcs[i].label,
                             join(canonicalSkills, parseSkillFile(f, join(ok[j], "SKILL.md"))),
                             "dir", "copy", ok[j])]])

singleCandidates(f, srcs, canonicalFile) ==
    Flatten([i \in 1..Len(srcs) |->
        IF ~scanned(f, srcs[i].at) THEN <<>>
        ELSE << Candidate(srcs[i].label, canonicalFile, "file", "copy", srcs[i].at) >>])

\* every addCandidate call of the scan, in call order
allCandidates(f, sc, cl) ==
    LET roots == resolveRoots(sc)
        canonicalRoot == roots.canonicalRoot
    IN fileCandidates(f, commandSources(roots, cl), join(canonicalRoot, "commands"))
       \o fileCandidates(f, hookSources(roots, cl), join(canonicalRoot, "hooks"))
       \o skillCandidates(f, skillSources(sc, roots, cl), join(canonicalRoot, "skills"))
       \o singleCandidates(f, agentSources(sc, roots, cl), join(canonicalRoot, "AGENTS.md"))
       \o singleCandidates(f, claudeSources(sc, roots, cl), join(canonicalRoot, "CLAUDE.md"))
       \o singleCandidates(f, geminiSources(sc, roots, cl), join(canonicalRoot, "GEMINI.md"))


\* targetKeys with one key per addCandidate call
RECURSIVE targetKeysPerCall(_, _)
targetKeysPerCall(cands, seen) ==
    IF cands = <<>> THEN <<>>
    ELSE << Head(cands).targetPath >> \o targetKeysPerCall(Tail(cands), seen)

\* the keys of candidatesByTarget in insertion order
RECURSIVE targetKeys(_, _)
targetKeys(cands, seen) ==
    IF cands = <<>> THEN <<>>
    ELSE IF Head(cands).targetPath \in seen THEN targetKeys(Tail(cands), seen)
    ELSE << Head(cands).targetPath >>
         \o targetKeys(Tail(cands), seen \cup {Head(cands).targetPath})

\* addCandidate: the list of a target path, in insertion order
addCandidate(cands, targetPath) ==
    LET same(c) == c.targetPath = targetPath IN SelectSeq(cands, same)

conflictLabel(targetPath, canonicalRoot) ==
    IF IsPrefix(canonicalRoot, targetPath)
    THEN IF pathRelative(canonicalRoot, targetPath).parts # <<>>
         THEN pathRelative(canonicalRoot, targetPath).parts
         ELSE << basename(targetPath) >>
    ELSE << basename(targetPath) >>

keepCandidate(f, targetPath) ==
    Candidate("Keep existing (.agents)", targetPath,
              IF isDirectory(f, targetPath) THEN "dir" ELSE "file", "keep", NoPath)


\* groupOf without the keep candidate
groupOfNoKeep(f, cands, targetPath) == addCandidate(cands, targetPath)

\* the group of one target path: the keep candidate is put first when the
\* canonical path exists
groupOf(f, cands, targetPath) ==
    (IF pathExists(f, targetPath) THEN << keepCandidate(f, targetPath) >> ELSE <<>>)
    \o addCandidate(cands, targetPath)

\* isAuto without the test of the canonical path
isAutoSingleSource(f, cands, targetPath) == Len(addCandidate(cands, targetPath)) = 1

isAuto(f, cands, targetPath) ==
    Len(groupOf(f, cands, targetPath)) = 1 /\ ~pathExists(f, targetPath)

scanMigration(f, sc, cl) ==
    LET canonicalRoot == resolveRoots(sc).canonicalRoot
        cands == allCandidates(f, sc, cl)
        keys == targetKeys(cands, {})
        auto(k) == isAuto(f, cands, k)
        conf(k) == ~isAuto(f, cands, k)
        autoKeys == SelectSeq(keys, auto)
        confKeys == SelectSeq(keys, conf)
    IN [auto |-> [i \in 1..Len(autoKeys) |-> groupOf(f, cands, autoKeys[i])[1]],
        conflicts |-> [i \in 1..Len(confKeys) |->
                         [label |-> conflictLabel(confKeys[i], canonicalRoot),
                          targetPath |-> confKeys[i],
                          candidates |-> groupOf(f, cands, confKeys[i])]],
        canonicalRoot |-> canonicalRoot]

-----------------------------------------------------------------------------
(* migrate: applyMigration *)

NoChoice == [action |-> "none"]

\* copyCandidate recording every destination as created, existing or not
copyCandidateNoBackup(w, candidate) ==
    IF candidate.action # "copy" \/ candidate.sourcePath = NoPath THEN [w |-> w, ok |-> FALSE]
    ELSE LET w1 == recordCreatedPath(w, candidate.targetPath,
                                     IF candidate.kind = "dir" THEN "dir" ELSE "file")
             w2 == IF candidate.kind = "file"
                   THEN copyFile(w1, candidate.sourcePath, candidate.targetPath, TRUE)
                   ELSE copyDir(w1, candidate.sourcePath, candidate.targetPath, TRUE)
         IN [w |-> w2, ok |-> TRUE]

\* copyCandidate: journal the destination, then copy
copyCandidate(w, candidate) ==
    IF candidate.action # "copy" \/ candidate.sourcePath = NoPath THEN [w |-> w, ok |-> FALSE]
    ELSE LET existed == pathExists(w.fs, candidate.targetPath)
             w1 == IF existed THEN backupPath(w, candidate.targetPath)
                   ELSE recordCreatedPath(w, candidate.targetPath,
                                          IF candidate.kind = "dir" THEN "dir" ELSE "file")
             w2 == IF candidate.kind = "file"
                   THEN copyFile(w1, candidate.sourcePath, candidate.targetPath, TRUE)
                   ELSE copyDir(w1, candidate.sourcePath, candidate.targetPath, TRUE)
         IN [w |-> w2, ok |-> TRUE]

Copied(c, ok) == [c EXCEPT !.copied = @ + Inc(ok), !.skipped = @ + Inc(~ok)]

\* selections.get(conflict.targetPath)
selectionOf(sel, conflict) ==
    IF conflict.targetPath \in DOMAIN sel THEN sel[conflict.targetPath] ELSE NoChoice

\* migrateItem raising an error for a conflict without a selection
migrateItemStrict(w, c, item, sel) ==
    IF item.of = "auto"
    THEN LET r == copyCandidate(w, item.candidate) IN [w |-> r.w, c |-> Copied(c, r.ok)]
    ELSE LET choice == selectionOf(sel, item.conflict)
         IN IF choice = NoChoice THEN [w |-> Throw(w), c |-> c]
            ELSE IF choice.action # "copy" THEN [w |-> w, c |-> [c EXCEPT !.skipped = @ + 1]]
            ELSE LET r == copyCandidate(w, choice) IN [w |-> r.w, c |-> Copied(c, r.ok)]

\* one iteration of the two loops of applyMigration
migrateItem(w, c, item, sel) ==
    IF item.of = "auto"
    THEN LET r == copyCandidate(w, item.candidate) IN [w |-> r.w, c |-> Copied(c, r.ok)]
    ELSE LET choice == selectionOf(sel, item.conflict)
         IN IF choice = NoChoice \/ choice.action # "copy"
            THEN [w |-> w, c |-> [c EXCEPT !.skipped = @ + 1]]
            ELSE LET r == copyCandidate(w, choice) IN [w |-> r.w, c |-> Copied(c, r.ok)]

\* migrateItems without the auto candidates
migrateItemsConflictsOnly(mp) ==
    [i \in 1..Len(mp.conflicts) |-> [of |-> "conflict", conflict |-> mp.conflicts[i]]]

migrateItems(mp) ==
    [i \in 1..Len(mp.auto) |-> [of |-> "auto", candidate |-> mp.auto[i]]]
    \o [i \in 1..Len(mp.conflicts) |-> [of |-> "conflict", conflict |-> mp.conflicts[i]]]

-----------------------------------------------------------------------------
(* backup / undo: the session index and undoLastChange *)

\* createBackupSession: the session directory lives under the canonical tree
createBackupSession(f, sc) ==
    ensureDir(World(f, EmptySession, <<>>), join(resolveRoots(sc).canonicalRoot, "backup")).fs

\* finalizeBackup(session): the index is persisted for a later undo
finalizeBackup(ul, s) == Append(ul, [sess |-> s, consumed |-> FALSE])

\* a backup entry moved back to its original path, over what is there now
restoreEntry(f, e) ==
    LET cleared == [q \in DOMAIN f \ Under(f, e.originalPath) |-> f[q]]
        w == ensureDir(World(cleared, EmptySession, <<>>), dirname(e.originalPath))
    IN Plant(w.fs, e.originalPath, e.snap)

RECURSIVE restoreAll(_, _)
restoreAll(f, entries) ==
    IF entries = <<>> THEN f ELSE restoreAll(restoreEntry(f, Head(entries)), Tail(entries))

\* a created entry removed: files and directories outright, links unlinked
RECURSIVE removeAll(_, _)
removeAll(f, entries) ==
    IF entries = <<>> THEN f
    ELSE removeAll([q \in DOMAIN f \ Under(f, Head(entries).path) |-> f[q]], Tail(entries))

RECURSIVE countRemoved(_, _, _)
countRemoved(f, entries, onlyLinks) ==
    IF entries = <<>> THEN 0
    ELSE LET p == Head(entries).path
             hit == pathExists(f, p) /\ (onlyLinks => isSymbolicLink(f, p))
         IN Inc(hit) + countRemoved([q \in DOMAIN f \ Under(f, p) |-> f[q]], Tail(entries), onlyLinks)

\* undoable without the consumed mark
undoableAgain(ul) == Len(ul) > 0

\* the most recently finalized session, when it has not been consumed
undoable(ul) == Len(ul) > 0 /\ ~ul[Len(ul)].consumed

undoLastChange(f, ul) ==
    IF ~undoable(ul)
    THEN [fs |-> f, undoLog |-> ul, restoredBackups |-> 0, removedCreated |-> 0,
          removedSymlinks |-> 0, undone |-> FALSE]
    ELSE LET s == ul[Len(ul)].sess
             f1 == restoreAll(f, s.backedUp)
         IN [fs |-> removeAll(f1, s.created),
             undoLog |-> [ul EXCEPT ![Len(ul)].consumed = TRUE],
             restoredBackups |-> Len(s.backedUp),
             removedCreated |-> countRemoved(f1, s.created, FALSE),
             removedSymlinks |-> countRemoved(f1, s.created, TRUE),
             undone |-> TRUE]

-----------------------------------------------------------------------------
(* Initial trees: the home and project directories, plus at most           *)
(* MaxPreexisting of the features below.                                   *)

Dir(p) == p :> [t |-> "dir"]
File(p, c) == p :> [t |-> "file", c |-> c]
Lnk(p, text, ty) == p :> [t |-> "link", text |-> text, ty |-> ty]

Configs ==
    { [scope |-> "global", clients |-> {"claude", "factory"}],
      [scope |-> "global", clients |-> {"gemini", "antigravity"}],
      [scope |-> "project", clients |-> {"claude"}] }

\* a relative text that resolves like pathRelative's but is spelled differently
DottedText(from, to) ==
    [abs |-> FALSE, parts |-> << "." >> \o pathRelative(from, to).parts]

Features(sc, cl) ==
    LET roots == resolveRoots(sc)
        K == roots.canonicalRoot
        first == IF "claude" \in cl THEN roots.claudeRoot ELSE roots.geminiRoot
        cmd == join(first, "commands")
        src == join(K, "commands")
        md == IF "claude" \in cl THEN join(first, "CLAUDE.md") ELSE join(first, "GEMINI.md")
        over == IF "claude" \in cl THEN join(K, "CLAUDE.md") ELSE join(K, "GEMINI.md")
        agents == join(K, "AGENTS.md")
        elsewhere == homeDir \o << "other" >>
    IN { Dir(cmd) @@ File(join(cmd, "a.md"), "one") @@ File(join(cmd, "b.md"), "more"),
         Lnk(cmd, pathRelative(first, src), "junction"),
         Lnk(cmd, AbsText(src), "junction"),
         Lnk(cmd, DottedText(first, src), "junction"),
         Lnk(cmd, AbsText(elsewhere), "junction"),
         File(cmd, "plain"),
         Dir(src) @@ File(join(src, "a.md"), "canon"),
         File(src, "plain"),
         File(agents, "agents"),
         Dir(join(first, "skills")) @@ Dir(join(first, "skills") \o << "one" >>)
            @@ File(join(first, "skills") \o << "one", "SKILL.md" >>, "skill:alpha"),
         Dir(join(first, "skills")) @@ Dir(join(first, "skills") \o << "other" >>)
            @@ File(join(first, "skills") \o << "other", "SKILL.md" >>, "broken") }
       \cup
       (IF "factory" \in cl
        THEN { Dir(join(roots.factoryRoot, "commands"))
                  @@ File(join(roots.factoryRoot, "commands") \o << "a.md" >>, "two"),
               Dir(join(roots.factoryRoot, "hooks"))
                  @@ File(join(roots.factoryRoot, "hooks") \o << "h.sh" >>, "hook"),
               Dir(join(roots.factoryRoot, "skills"))
                  @@ Dir(join(roots.factoryRoot, "skills") \o << "two" >>)
                  @@ File(join(roots.factoryRoot, "skills") \o << "two", "SKILL.md" >>,
                          "skill:alpha") }
        ELSE {})
       \cup
       (IF sc = "global"
        THEN { File(over, "override"),
               File(md, "mine"),
               Lnk(md, pathRelative(first, agents), "file"),
               Lnk(md, AbsText(agents), "file"),
               Lnk(md, AbsText(elsewhere), "file"),
               File(join(first, "AGENTS.md"), "notes") }
        ELSE { File(first, "plain") })

\* two features that can be present together
Compatible(a, b) ==
    \A p \in DOMAIN a, q \in DOMAIN b :
        /\ IsPrefix(p, q) => (a[p].t = "dir" /\ (p = q => b[q].t = "dir"))
        /\ IsPrefix(q, p) => (b[q].t = "dir" /\ (p = q => a[p].t = "dir"))

RECURSIVE KSubsets(_, _)
KSubsets(S, k) ==
    IF k = 0 THEN {{}}
    ELSE LET prev == KSubsets(S, k - 1) IN prev \cup {T \cup {x} : T \in prev, x \in S}

RECURSIVE Merge(_)
Merge(F) == IF F = {} THEN <<>> ELSE LET a == CHOOSE a \in F : TRUE IN a @@ Merge(F \ {a})

\* the tree holding the nodes of f and every directory above them
Close(f) ==
    LET anc == UNION {Ancestors(p) : p \in DOMAIN f}
    IN [q \in anc |-> IF q \in DOMAIN f THEN f[q] ELSE [t |-> "dir"]]

InitialTrees(sc, cl) ==
    { Close(Merge(F) @@ Dir(homeDir) @@ Dir(projectRoot)) :
        F \in { G \in KSubsets(Features(sc, cl), MaxPreexisting) :
                   \A a, b \in G : a = b \/ Compatible(a, b) } }

\* every directory above an existing path exists and is a directory
WellFormed(f) == \A p \in DOMAIN f : \A q \in Ancestors(p) : q = p \/ isDirectory(f, q)

-----------------------------------------------------------------------------
(* The CLI: run loop, runChange, applyMigration, applyLinkPlan, undo *)

EmptyPlan == [tasks |-> <<>>, conflicts |-> <<>>, changes |-> <<>>]
EmptyMigration == [auto |-> <<>>, conflicts |-> <<>>, canonicalRoot |-> <<>>]

Init ==
    /\ \E cfg \in Configs :
          /\ scope = cfg.scope
          /\ clients = cfg.clients
          /\ fs \in InitialTrees(cfg.scope, cfg.clients)
    /\ pc = "menu"
    /\ run = 0
    /\ force = FALSE
    /\ migrate = EmptyMigration
    /\ link = EmptyPlan
    /\ selections = <<>>
    /\ session = EmptySession
    /\ undoLog = <<>>
    /\ todo = <<>>
    /\ idx = 1
    /\ plan = EmptyPlan
    /\ counters = ZeroCounters
    /\ log = <<>>
    /\ fsBefore = fs
    /\ fsPlan = fs
    /\ last = [op |-> "none"]

\* runChange up to the operator's answer: scan, plan, "Apply changes"
RunChange ==
    /\ pc = "menu"
    /\ run < MaxRuns
    /\ run' = run + 1
    /\ migrate' = scanMigration(fs, scope, clients)
    /\ link' = buildLinkPlan(fs, scope, clients)
    /\ force' \in IF Len(link'.conflicts) > 0 THEN BOOLEAN ELSE {TRUE}
    /\ pc' = "resolve"
    /\ UNCHANGED <<scope, clients, fs, selections, session, undoLog, todo, idx, plan,
                   counters, log, fsBefore, fsPlan, last>>

\* the selections an operator or a caller can hand to applyMigration
Selections(mp) ==
    LET keys == {mp.conflicts[i].targetPath : i \in 1..Len(mp.conflicts)}
        conf(k) == CHOOSE c \in {mp.conflicts[i] : i \in 1..Len(mp.conflicts)} : c.targetPath = k
        all == UNION {{c.candidates[j] : j \in 1..Len(c.candidates)} :
                         c \in {mp.conflicts[i] : i \in 1..Len(mp.conflicts)}}
    IN { sel \in [keys -> all \cup {NoChoice}] :
           \A k \in keys : sel[k] = NoChoice
                           \/ \E j \in 1..Len(conf(k).candidates) : sel[k] = conf(k).candidates[j] }

\* resolveMigrationConflicts
ResolveConflicts ==
    /\ pc = "resolve"
    /\ selections' \in Selections(migrate)
    /\ pc' = "session"
    /\ UNCHANGED <<scope, clients, fs, run, force, migrate, link, session, undoLog, todo,
                   idx, plan, counters, log, fsBefore, fsPlan, last>>

\* createBackupSession, and the entry of applyMigration
OpenSession ==
    /\ pc = "session"
    /\ fs' = createBackupSession(fs, scope)
    /\ session' = EmptySession
    /\ fsBefore' = fs'
    /\ log' = <<>>
    /\ counters' = ZeroCounters
    /\ todo' = migrateItems(migrate)
    /\ pc' = "migrate"
    /\ UNCHANGED <<scope, clients, run, force, migrate, link, selections, undoLog, idx, plan,
                   fsPlan, last>>

\* the state after one step of the apply: an exception ends runChange in
\* its catch block, with the session not finalized
Stepped(r, nextPc) ==
    /\ fs' = r.w.fs
    /\ session' = r.w.sess
    /\ log' = r.w.log
    /\ counters' = r.c
    /\ IF r.w.err
       THEN pc' = "menu" /\ last' = [op |-> "failed"]
       ELSE pc' = nextPc /\ last' = last

\* applyMigration: one auto candidate or one conflict
MigrateStep ==
    /\ pc = "migrate"
    /\ todo # <<>>
    /\ Stepped(migrateItem(World(fs, session, log), counters, Head(todo), selections), "migrate")
    /\ todo' = Tail(todo)
    /\ UNCHANGED <<scope, clients, run, force, migrate, link, selections, undoLog, idx, plan,
                   fsBefore, fsPlan>>

\* BuildPlan applying the plan that was built before the copies
BuildPlanStale ==
    /\ pc = "migrate"
    /\ todo = <<>>
    /\ plan' = link
    /\ fsPlan' = fs
    /\ idx' = 1
    /\ pc' = "apply"
    /\ UNCHANGED <<scope, clients, fs, run, force, migrate, link, selections, session, undoLog,
                   todo, counters, log, fsBefore, last>>

\* applyMigration: buildLinkPlan after the copies
BuildPlan ==
    /\ pc = "migrate"
    /\ todo = <<>>
    /\ plan' = buildLinkPlan(fs, scope, clients)
    /\ fsPlan' = fs
    /\ idx' = 1
    /\ pc' = "apply"
    /\ UNCHANGED <<scope, clients, fs, run, force, migrate, link, selections, session, undoLog,
                   todo, counters, log, fsBefore, last>>

\* applyLinkPlan: one task
ApplyTask ==
    /\ pc = "apply"
    /\ idx <= Len(plan.tasks)
    /\ Stepped(applyTask(World(fs, session, log), counters, plan.tasks[idx], force), "apply")
    /\ idx' = idx + 1
    /\ UNCHANGED <<scope, clients, run, force, migrate, link, selections, undoLog, todo, plan,
                   fsBefore, fsPlan>>

\* applyLinkPlan and applyMigration return, finalizeBackup
Finalize ==
    /\ pc = "apply"
    /\ idx > Len(plan.tasks)
    /\ undoLog' = finalizeBackup(undoLog, session)
    /\ last' = [op |-> "change", force |-> force,
                copied |-> counters.copied, skipped |-> counters.skipped,
                links |-> [applied |-> counters.applied, skipped |-> counters.lskipped,
                           conflicts |-> counters.conflicts, backedUp |-> counters.backedUp]]
    /\ pc' = "menu"
    /\ UNCHANGED <<scope, clients, fs, run, force, migrate, link, selections, session, todo,
                   idx, plan, counters, log, fsBefore, fsPlan>>

\* "Undo last change"
Undo ==
    /\ pc = "menu"
    /\ LET r == undoLastChange(fs, undoLog)
       IN /\ fs' = r.fs
          /\ undoLog' = r.undoLog
          /\ last' = [op |-> "undo", prev |-> last.op, undone |-> r.undone,
                      restoredBackups |-> r.restoredBackups,
                      removedCreated |-> r.removedCreated,
                      removedSymlinks |-> r.removedSymlinks]
    /\ UNCHANGED <<scope, clients, pc, run, force, migrate, link, selections, session, todo,
                   idx, plan, counters, log, fsBefore, fsPlan>>

Next ==
    \/ RunChange
    \/ ResolveConflicts
    \/ OpenSession
    \/ MigrateStep
    \/ BuildPlan
    \/ ApplyTask
    \/ Finalize
    \/ Undo

Spec == Init /\ [][Next]_vars

TreeOk == WellFormed(fs)

-----------------------------------------------------------------------------
(* The library called directly: a caller builds the plans, then calls      *)
(* applyLinkPlan or applyMigration with or without a session, while        *)
(* another process may change the tree between the plan and the apply.     *)

\* the absent backup argument
NoSession == [created |-> <<>>, backedUp |-> <<>>, absent |-> TRUE]

\* requireSession without the test
requireSessionNever(w) == w

\* if (!backup) throw new Error('Backup session required.')
requireSession(w) == IF w.sess = NoSession THEN Throw(w) ELSE w

\* the caller scans and plans, and picks the force flag
CallerPlans ==
    /\ pc = "menu"
    /\ run = 0
    /\ run' = 1
    /\ migrate' = scanMigration(fs, scope, clients)
    /\ link' = buildLinkPlan(fs, scope, clients)
    /\ fsPlan' = fs
    /\ force' \in BOOLEAN
    /\ pc' = "planned"
    /\ UNCHANGED <<scope, clients, fs, selections, session, undoLog, todo, idx, plan,
                   counters, log, fsBefore, last>>

\* what another process can leave at a path
Replacements(p) == { File(p, "theirs"), Dir(p), <<>> }

\* another process replaces the target of a link task of the plan, once,
\* after the plan was built
ExternalChange ==
    /\ pc = "planned"
    /\ fs = fsPlan
    /\ \E k \in 1..Len(link.tasks) :
          /\ link.tasks[k].type = "link"
          /\ ~DirBlocked(fs, dirname(link.tasks[k].target))
          /\ \E sub \in Replacements(link.tasks[k].target) :
                LET kept == [q \in DOMAIN fs \ Under(fs, link.tasks[k].target) |-> fs[q]]
                IN fs' = Close(sub @@ kept)
    /\ fs' # fs
    /\ UNCHANGED <<scope, clients, pc, run, force, migrate, link, selections, session, undoLog,
                   todo, idx, plan, counters, log, fsBefore, fsPlan, last>>

\* another process puts a file or a directory, once, after the scan, at the
\* canonical path an auto candidate of the migration plan is to be copied to
ExternalCreate ==
    /\ pc = "planned"
    /\ fs = fsPlan
    /\ \E k \in 1..Len(migrate.auto) :
          \E sub \in { File(migrate.auto[k].targetPath, "theirs"),
                       Dir(migrate.auto[k].targetPath) } :
              /\ ~DirBlocked(fs, dirname(migrate.auto[k].targetPath))
              /\ fs' = Close(sub @@ fs)
    /\ UNCHANGED <<scope, clients, pc, run, force, migrate, link, selections, session, undoLog,
                   todo, idx, plan, counters, log, fsBefore, fsPlan, last>>

\* another process removes, once, after the plan was built, what stands at
\* the target of a conflict task of the plan
ExternalRemove ==
    /\ pc = "planned"
    /\ fs = fsPlan
    /\ \E k \in 1..Len(link.tasks) :
          /\ link.tasks[k].type = "conflict"
          /\ link.tasks[k].target # link.tasks[k].source
          /\ pathExists(fs, link.tasks[k].target)
          /\ fs' = [q \in DOMAIN fs \ Under(fs, link.tasks[k].target) |-> fs[q]]
    /\ UNCHANGED <<scope, clients, pc, run, force, migrate, link, selections, session, undoLog,
                   todo, idx, plan, counters, log, fsBefore, fsPlan, last>>

\* the entry of a library call with the backup argument given: the call is
\* rejected before anything else when there is no session
Entered(backup, api, nextPc) ==
    LET w == requireSession(World(fs, backup, <<>>))
    IN /\ session' = backup
       /\ fsBefore' = fs
       /\ log' = <<>>
       /\ counters' = ZeroCounters
       /\ IF w.err THEN pc' = "menu" /\ last' = [op |-> "rejected", api |-> api]
                   ELSE pc' = nextPc /\ last' = last

\* applyLinkPlan(plan, {force, backup}) with the plan built before
CallApplyLinkPlan ==
    /\ pc = "planned"
    /\ \E backup \in {NoSession, EmptySession} : Entered(backup, "applyLinkPlan", "apply")
    /\ plan' = link
    /\ idx' = 1
    /\ UNCHANGED <<scope, clients, fs, run, force, migrate, link, selections, undoLog, todo,
                   fsPlan>>

\* applyMigration(plan, selections, {backup, forceLinks})
CallApplyMigration ==
    /\ pc = "planned"
    /\ \E backup \in {NoSession, EmptySession} : Entered(backup, "applyMigration", "migrate")
    /\ selections' \in Selections(migrate)
    /\ todo' = migrateItems(migrate)
    /\ UNCHANGED <<scope, clients, fs, run, force, migrate, link, undoLog, idx, plan, fsPlan>>

ApiNext ==
    \/ CallerPlans
    \/ ExternalChange
    \/ ExternalCreate
    \/ ExternalRemove
    \/ CallApplyLinkPlan
    \/ CallApplyMigration
    \/ MigrateStep
    \/ BuildPlan
    \/ ApplyTask
    \/ Finalize

ApiSpec == Init /\ [][ApiNext]_vars

-----------------------------------------------------------------------------
(* The scanner and the planner on their own: scanMigration and             *)
(* buildLinkPlan applied to a tree, over a wider set of trees than the     *)
(* applies are run on.                                                     *)

\* pre-existing content that only the scan and the plan are run on
PlanFeatures(sc, cl) ==
    LET roots == resolveRoots(sc)
        K == roots.canonicalRoot
        first == IF "claude" \in cl THEN roots.claudeRoot ELSE roots.geminiRoot
        cmd == join(first, "commands")
        src == join(K, "commands")
        md == IF "claude" \in cl THEN join(first, "CLAUDE.md") ELSE join(first, "GEMINI.md")
        over == IF "claude" \in cl THEN join(K, "CLAUDE.md") ELSE join(K, "GEMINI.md")
        foreign == IF "claude" \in cl THEN join(K, "GEMINI.md") ELSE join(K, "CLAUDE.md")
        agents == join(K, "AGENTS.md")
        elsewhere == homeDir \o << "other" >>
    IN Features(sc, cl)
       \cup
       { Lnk(src, AbsText(elsewhere), "junction"),
         Lnk(cmd, AbsText(agents), "junction"),
         Lnk(join(first, "skills"), pathRelative(first, join(K, "skills")), "junction"),
         Dir(join(first, "skills")) @@ Dir(join(first, "skills") \o << "two" >>)
            @@ File(join(first, "skills") \o << "two", "SKILL.md" >>, "skill:beta") }
       \cup
       (IF sc = "global"
        THEN { Dir(agents),
               Dir(over),
               Lnk(agents, AbsText(elsewhere), "file"),
               Lnk(md, AbsText(over), "file"),
               Lnk(md, pathRelative(first, over), "file"),
               Lnk(md, AbsText(foreign), "file") }
        ELSE {})
       \cup
       (IF sc = "global" /\ "factory" \in cl
        THEN { Lnk(join(roots.factoryRoot, "AGENTS.md"), AbsText(join(K, "CLAUDE.md")), "file"),
               Lnk(join(roots.factoryRoot, "AGENTS.md"), AbsText(agents), "file") }
        ELSE {})

PlanTrees(sc, cl) ==
    { Close(Merge(F) @@ Dir(homeDir) @@ Dir(projectRoot)) :
        F \in { G \in KSubsets(PlanFeatures(sc, cl), MaxPreexisting) :
                   \A a, b \in G : a = b \/ Compatible(a, b) } }

PlanInit ==
    /\ \E cfg \in Configs :
          /\ scope = cfg.scope
          /\ clients = cfg.clients
          /\ fs \in PlanTrees(cfg.scope, cfg.clients)
    /\ pc = "menu"
    /\ run = 0
    /\ force = FALSE
    /\ migrate = EmptyMigration
    /\ link = EmptyPlan
    /\ selections = <<>>
    /\ session = EmptySession
    /\ undoLog = <<>>
    /\ todo = <<>>
    /\ idx = 1
    /\ plan = EmptyPlan
    /\ counters = ZeroCounters
    /\ log = <<>>
    /\ fsBefore = fs
    /\ fsPlan = fs
    /\ last = [op |-> "none"]

PlanNext ==
    \/ RunChange
    \/ ResolveConflicts

PlanSpec == PlanInit /\ [][PlanNext]_vars

-----------------------------------------------------------------------------
(* Vocabulary of the properties *)

\* the link plan in hand and the tree it was built from: the plan shown to
\* the operator until the session opens, the applied plan afterwards
View ==
    IF pc \in {"resolve", "session"} THEN [p |-> link, f |-> fs] ELSE [p |-> plan, f |-> fsPlan]

\* every (mapping, target) pair of the mappings of a tree
Pairs(f) ==
    LET ms == getMappings(f, scope, clients)
    IN UNION { { [name |-> ms[i].name, source |-> ms[i].source, kind |-> ms[i].kind,
                  target |-> ms[i].targets[j]] : j \in 1..Len(ms[i].targets) } :
               i \in 1..Len(ms) }

\* the target tasks a plan holds for a (source, target) pair
TasksFor(p, source, target) ==
    { p.tasks[k] : k \in { n \in 1..Len(p.tasks) :
                              /\ p.tasks[n].type # "ensure-source"
                              /\ p.tasks[n].source = source
                              /\ p.tasks[n].target = target } }

InSeq(x, sq) == \E k \in 1..Len(sq) : sq[k] = x

CountType(tasks, n, type) == Cardinality({k \in 1..n : tasks[k].type = type})

RelativeLink(target, source) == pathRelative(dirname(target), source)

\* a symbolic link at target that resolves to source
ResolvesTo(f, target, source) ==
    isSymbolicLink(f, target) /\ pathResolve(dirname(target), f[target].text) = source

-----------------------------------------------------------------------------
(* Properties *)

\* C1: applyLinkPlan with force = false leaves the target of every conflict
\* task as it was when the plan was built, and counts each conflict task in
\* conflicts only: the tasks handled so far split into conflicts (counted
\* in conflicts) and the others (counted in applied or skipped).
C1_UnforcedConflictsUntouched ==
    (pc = "apply" /\ ~force) =>
        /\ \A k \in 1..Len(plan.tasks) :
              plan.tasks[k].type = "conflict" =>
                  Subtree(fs, plan.tasks[k].target) = Subtree(fsPlan, plan.tasks[k].target)
        /\ counters.conflicts = CountType(plan.tasks, idx - 1, "conflict")
        /\ counters.applied + counters.lskipped = (idx - 1) - counters.conflicts
        /\ counters.backedUp <= counters.applied

\* C1 witness: an unforced apply has passed a conflict task whose target is
\* a real file or directory, and has applied another task
C1_Witness ==
    /\ pc = "apply" /\ ~force
    /\ counters.applied > 0
    /\ \E k \in 1..(idx - 1) :
          /\ plan.tasks[k].type = "conflict"
          /\ plan.tasks[k].target # plan.tasks[k].source
          /\ ~isSymbolicLink(fs, plan.tasks[k].target)

\* C6: a mapping target that is an ordinary file or directory gets exactly
\* a conflict task, whose reason names the kind found.
C6_RealTargetIsConflict ==
    View.p # EmptyPlan =>
        \A x \in Pairs(View.f) :
            (isFile(View.f, x.target) \/ isDirectory(View.f, x.target)) =>
                TasksFor(View.p, x.source, x.target) =
                    { ConflictTask(x.source, x.target,
                                   IF isFile(View.f, x.target)
                                   THEN "Target exists and is not a symlink (file)"
                                   ELSE "Target exists and is not a symlink (directory)",
                                   NoPath, x.kind) }

\* C6 witness: a plan over a tree with a real file target and a real
\* directory target
C6_Witness ==
    /\ View.p # EmptyPlan
    /\ \E x \in Pairs(View.f) : isFile(View.f, x.target)
    /\ \E x \in Pairs(View.f) : isDirectory(View.f, x.target) /\ ~pathExists(View.f, x.source)

\* C7: a target that is a symbolic link storing the relative path from its
\* directory to the mapping source gets a noop task, and no entry of
\* plan.changes or plan.conflicts.
C7_RelativeLinkIsNoop ==
    View.p # EmptyPlan =>
        \A x \in Pairs(View.f) :
            (isSymbolicLink(View.f, x.target)
             /\ View.f[x.target].text = RelativeLink(x.target, x.source)) =>
                /\ TasksFor(View.p, x.source, x.target) = { NoopTask(x.source, x.target) }
                /\ \A k \in 1..Len(View.p.changes) :
                      View.p.changes[k].type = "link" => View.p.changes[k].target # x.target
                /\ \A k \in 1..Len(View.p.conflicts) : View.p.conflicts[k].target # x.target

\* C7 witness: a plan over a tree where a target is such a link, whose
\* source does not exist, beside a target that needs a change
C7_Witness ==
    /\ pc = "resolve"
    /\ run = 1
    /\ \E x \in Pairs(fs) :
          /\ isSymbolicLink(fs, x.target)
          /\ fs[x.target].text = RelativeLink(x.target, x.source)
          /\ ~pathExists(fs, x.source)
    /\ Len(link.changes) > 0


MutationOps == {"mkdir", "write", "copy", "remove", "symlink"}
JournalOps == {"backup", "created"}

\* C2: every path the apply creates, overwrites or removes has a journal
\* entry (backup or created) recorded before the mutation of that path.
C2_JournalBeforeMutation ==
    \A i \in 1..Len(log) :
        log[i].op \in MutationOps =>
            \E j \in 1..(i - 1) : log[j].op \in JournalOps /\ log[j].path = log[i].path

\* C3: an undo that follows a finalized apply leaves the tree as it was
\* before the apply.
C3_UndoRestoresTree ==
    (pc = "menu" /\ last.op = "undo" /\ last.undone /\ last.prev = "change") => fs = fsBefore

SourceConflict(t) == t.type = "conflict" /\ t.target = t.source

ReplacedTargets ==
    { t \in { plan.tasks[k].target : k \in { n \in 1..Len(plan.tasks) :
                                               plan.tasks[n].type \in {"link", "conflict"} } } :
        pathExists(fsPlan, t) /\ Subtree(fs, t) # Subtree(fsPlan, t) }

\* C5: a forced applyLinkPlan leaves every force-eligible conflict target a
\* symbolic link to its source, and backedUp counts the replaced targets
\* that existed before, once each.
C5_ForcedBackedUpOncePerTarget ==
    (pc = "apply" /\ idx > Len(plan.tasks) /\ force) =>
        /\ \A k \in 1..Len(plan.tasks) :
              (plan.tasks[k].type = "conflict" /\ plan.tasks[k].target # plan.tasks[k].source) =>
                  /\ isSymbolicLink(fs, plan.tasks[k].target)
                  /\ fs[plan.tasks[k].target].text
                        = RelativeLink(plan.tasks[k].target, plan.tasks[k].source)
        /\ counters.backedUp = Cardinality(ReplacedTargets)


\* a link whose text is not the relative text generated today but which
\* resolves to the source
StaleLinkTo(f, target, source) ==
    ResolvesTo(f, target, source) /\ f[target].text # RelativeLink(target, source)

\* C8: a target that is a symbolic link resolving to the mapping source with
\* another text than the relative one gets link with replaceSymlink = true,
\* never a conflict; once an unforced apply has handled that task the target
\* is the relative link and the session holds a backup of the old link.
C8_StaleLinkIsReplaced ==
    /\ View.p # EmptyPlan =>
          \A x \in Pairs(View.f) :
              StaleLinkTo(View.f, x.target, x.source) =>
                  TasksFor(View.p, x.source, x.target)
                      = { LinkTask(x.source, x.target, x.kind, TRUE) }
    /\ (pc = "apply" /\ ~force) =>
          \A k \in 1..(idx - 1) :
              (plan.tasks[k].type = "link"
               /\ StaleLinkTo(fsPlan, plan.tasks[k].target, plan.tasks[k].source)) =>
                  /\ isSymbolicLink(fs, plan.tasks[k].target)
                  /\ fs[plan.tasks[k].target].text
                        = RelativeLink(plan.tasks[k].target, plan.tasks[k].source)
                  /\ \E e \in 1..Len(session.backedUp) :
                        /\ session.backedUp[e].originalPath = plan.tasks[k].target
                        /\ session.backedUp[e].snap = Subtree(fsPlan, plan.tasks[k].target)

\* C8 witness: an unforced apply has handled the task of a target that was
\* an absolute link to its source
C8_Witness ==
    /\ pc = "apply" /\ ~force
    /\ \E k \in 1..(idx - 1) :
          /\ plan.tasks[k].type = "link"
          /\ StaleLinkTo(fsPlan, plan.tasks[k].target, plan.tasks[k].source)
          /\ isAbsolute(fsPlan[plan.tasks[k].target].text)

\* C8 witness of the other spelling: a relative text that is not the
\* generated one
C8_WitnessDotted ==
    /\ pc = "apply" /\ ~force
    /\ \E k \in 1..(idx - 1) :
          /\ plan.tasks[k].type = "link"
          /\ StaleLinkTo(fsPlan, plan.tasks[k].target, plan.tasks[k].source)
          /\ ~isAbsolute(fsPlan[plan.tasks[k].target].text)

\* the conflicts of the migration plan for a target path
ConflictsAt(mp, targetPath) ==
    { k \in 1..Len(mp.conflicts) : mp.conflicts[k].targetPath = targetPath }

AutosAt(mp, targetPath) ==
    { k \in 1..Len(mp.auto) : mp.auto[k].targetPath = targetPath }

KeepsOf(conflict) ==
    { j \in 1..Len(conflict.candidates) : conflict.candidates[j].action = "keep" }

\* the tree the migration plan in hand was scanned from is the current tree
\* until the session opens
ScanFresh == pc \in {"resolve", "session"}

\* C9: a canonical target path that exists at scan time and has a scanned
\* candidate is in plan.conflicts, never in plan.auto, with exactly one keep
\* candidate, which comes first; no auto candidate has an existing target.
C9_ExistingCanonicalIsConflict ==
    ScanFresh =>
        /\ \A c \in { allCandidates(fs, scope, clients)[i] :
                        i \in 1..Len(allCandidates(fs, scope, clients)) } :
              pathExists(fs, c.targetPath) =>
                  /\ AutosAt(migrate, c.targetPath) = {}
                  /\ Cardinality(ConflictsAt(migrate, c.targetPath)) = 1
                  /\ \A k \in ConflictsAt(migrate, c.targetPath) :
                        /\ KeepsOf(migrate.conflicts[k]) = {1}
                        /\ InSeq(c, migrate.conflicts[k].candidates)
        /\ \A k \in 1..Len(migrate.auto) : ~pathExists(fs, migrate.auto[k].targetPath)

\* C9 witness: a scan where an existing canonical path meets a single copy
\* candidate
C9_Witness ==
    /\ ScanFresh
    /\ \E k \in 1..Len(migrate.conflicts) :
          /\ pathExists(fs, migrate.conflicts[k].targetPath)
          /\ Len(migrate.conflicts[k].candidates) = 2
    /\ Len(migrate.auto) > 0

\* C10: two candidates with different labels and the same target path are
\* members of the one conflict of that path; a candidate alone for a path
\* that does not exist is in plan.auto and in no conflict.
C10_GroupingByTarget ==
    ScanFresh =>
        LET cands == allCandidates(fs, scope, clients)
            N == 1..Len(cands)
        IN /\ \A i, j \in N :
                 (cands[i].label # cands[j].label
                  /\ cands[i].targetPath = cands[j].targetPath) =>
                     /\ Cardinality(ConflictsAt(migrate, cands[i].targetPath)) = 1
                     /\ AutosAt(migrate, cands[i].targetPath) = {}
                     /\ \A k \in ConflictsAt(migrate, cands[i].targetPath) :
                           /\ InSeq(cands[i], migrate.conflicts[k].candidates)
                           /\ InSeq(cands[j], migrate.conflicts[k].candidates)
           /\ \A i \in N :
                 ((\A j \in N : cands[j].targetPath = cands[i].targetPath => j = i)
                  /\ ~pathExists(fs, cands[i].targetPath)) =>
                     /\ InSeq(cands[i], migrate.auto)
                     /\ Cardinality(AutosAt(migrate, cands[i].targetPath)) = 1
                     /\ ConflictsAt(migrate, cands[i].targetPath) = {}

\* C10 witness: a scan with two differently labelled candidates for one
\* path, from different files, and a lone candidate for an absent path
C10_Witness ==
    /\ ScanFresh
    /\ \E k \in 1..Len(migrate.conflicts) :
          /\ Len(migrate.conflicts[k].candidates) = 2
          /\ migrate.conflicts[k].candidates[1].action = "copy"
          /\ migrate.conflicts[k].candidates[1].sourcePath
                # migrate.conflicts[k].candidates[2].sourcePath
    /\ Len(migrate.auto) > 0


\* C13: when a filesystem operation fails during the apply, the failure
\* ends the apply, and an undo that follows finds the session of the failed
\* apply and reverses what it did: the paths it created are gone and the
\* paths it backed up are back.
C13_UndoAfterFailure ==
    (pc = "menu" /\ last.op = "undo" /\ last.prev = "failed") =>
        /\ last.undone
        /\ \A e \in 1..Len(session.created) : ~pathExists(fs, session.created[e].path)
        /\ \A e \in 1..Len(session.backedUp) :
              Subtree(fs, session.backedUp[e].originalPath) = session.backedUp[e].snap


\* the mappings of a scope and a client set over the current tree, as a set
MappingsOf(sc, cl) ==
    LET ms == getMappings(fs, sc, cl) IN { ms[i] : i \in 1..Len(ms) }

\* the client sets the mapping claims are checked for: the set of this
\* invocation and every single client
ClientSets == { clients } \cup { {c} : c \in AllClients }

\* C16: every mapping getMappings returns, for every scope and every
\* non-empty client set, has its source inside the canonical tree and has at
\* least one target.
C16_MappingHasTarget ==
    \A sc \in {"global", "project"}, cl \in ClientSets :
        \A m \in MappingsOf(sc, cl) :
            /\ IsPrefix(resolveRoots(sc).canonicalRoot, m.source)
            /\ Len(m.targets) >= 1

\* the target tasks (link, conflict, noop) buildLinkPlan emits for a target
\* path within one mapping
TargetTasks(m, t) ==
    LET ts == mappingTasks(fs, m)
    IN { k \in 1..Len(ts) : ts[k].type # "ensure-source" /\ ts[k].target = t }

\* C17: within each mapping, buildLinkPlan emits exactly one link, conflict
\* or noop task for each target path of the mapping.
C17_OneTaskPerTarget ==
    \A m \in MappingsOf(scope, clients) :
        \A i \in 1..Len(m.targets) : Cardinality(TargetTasks(m, m.targets[i])) = 1

\* C18: in global scope the claude-md mapping has the canonical CLAUDE.md as
\* source when it exists and AGENTS.md otherwise, gemini-md and
\* antigravity-md have GEMINI.md when it exists and AGENTS.md otherwise, and
\* agents-md has AGENTS.md.
C18_InstructionSources ==
    LET K == resolveRoots("global").canonicalRoot
        ms == MappingsOf("global", clients \cup {"claude", "gemini", "antigravity", "factory"})
        either(name) == IF pathExists(fs, join(K, name)) THEN join(K, name)
                        ELSE join(K, "AGENTS.md")
    IN /\ { m.name : m \in ms }
             = {"claude-md", "gemini-md", "antigravity-md", "agents-md",
                "commands", "hooks", "skills"}
       /\ \A m \in ms :
             /\ m.name = "claude-md" => m.source = either("CLAUDE.md")
             /\ m.name \in {"gemini-md", "antigravity-md"} => m.source = either("GEMINI.md")
             /\ m.name = "agents-md" => m.source = join(K, "AGENTS.md")

\* C18 witness: a global apply has linked the client's instruction file to
\* the canonical override, and another target to AGENTS.md
C18_Witness ==
    LET K == resolveRoots("global").canonicalRoot
    IN /\ scope = "global" /\ pc = "apply"
       /\ pathExists(fs, join(K, "CLAUDE.md"))
       /\ ResolvesTo(fs, join(resolveRoots("global").claudeRoot, "CLAUDE.md"),
                     join(K, "CLAUDE.md"))
       /\ ResolvesTo(fs, join(resolveRoots("global").factoryRoot, "AGENTS.md"),
                     join(K, "AGENTS.md"))


\* the tasks of the applied plan that leave a link made by applyLinkPlan:
\* the link tasks and the conflicts a forced apply acts on
MakesLink(t) == t.type = "link" \/ (t.type = "conflict" /\ forceEligible(t, force))

\* C14: every link applyLinkPlan has made stores the path of the source
\* relative to the directory of the target and resolves to the source, and
\* the plan built from the tree the apply leaves classifies each such target
\* as noop.
C14_CreatedLinksAreRelative ==
    pc = "apply" =>
        /\ \A k \in 1..(idx - 1) :
              MakesLink(plan.tasks[k]) =>
                  /\ isSymbolicLink(fs, plan.tasks[k].target)
                  /\ fs[plan.tasks[k].target].text
                        = RelativeLink(plan.tasks[k].target, plan.tasks[k].source)
                  /\ ~isAbsolute(fs[plan.tasks[k].target].text)
                  /\ ResolvesTo(fs, plan.tasks[k].target, plan.tasks[k].source)
        /\ idx > Len(plan.tasks) =>
              \A k \in 1..Len(plan.tasks) :
                  MakesLink(plan.tasks[k]) =>
                      TasksFor(buildLinkPlan(fs, scope, clients),
                               plan.tasks[k].source, plan.tasks[k].target)
                          = { NoopTask(plan.tasks[k].source, plan.tasks[k].target) }

\* C14 witness: an apply is through a plan with a new link and a forced
\* conflict
C14_Witness ==
    /\ pc = "apply" /\ idx > Len(plan.tasks) /\ force
    /\ \E k \in 1..Len(plan.tasks) :
          plan.tasks[k].type = "link" /\ ~pathExists(fsPlan, plan.tasks[k].target)
    /\ \E k \in 1..Len(plan.tasks) :
          plan.tasks[k].type = "conflict" /\ forceEligible(plan.tasks[k], force)

C20_SourceConflictNeverApplied ==
    [][(pc = "apply" /\ idx <= Len(plan.tasks) /\ idx' = idx + 1
        /\ SourceConflict(plan.tasks[idx])) =>
          /\ fs' = fs
          /\ session' = session
          /\ counters' = [counters EXCEPT !.conflicts = @ + 1]
          /\ pc' = "apply"]_vars

\* C20 witness: a forced apply has passed the conflict of a canonical source
\* of the wrong kind and has applied other tasks
C20_Witness ==
    /\ pc = "apply" /\ force
    /\ counters.applied > 0
    /\ \E k \in 1..(idx - 1) :
          /\ SourceConflict(plan.tasks[k])
          /\ plan.tasks[k].reason = "Expected directory but found file"


\* the commands directory of the first selected client and the canonical one
ClientCommands == commandTargets(resolveRoots(scope), clients)[1]
CanonicalCommands == join(resolveRoots(scope).canonicalRoot, "commands")

\* the scenario of C12: one client, whose commands directory is a real
\* directory holding a.md and b.md, and a canonical root with nothing in it
\* (but the backup directory of the session)
OneClientTwoCommands(f) ==
    /\ Cardinality(clients) = 1
    /\ isDirectory(f, ClientCommands)
    /\ isFile(f, join(ClientCommands, "a.md"))
    /\ isFile(f, join(ClientCommands, "b.md"))
    /\ Under(f, resolveRoots(scope).canonicalRoot)
          \subseteq { resolveRoots(scope).canonicalRoot,
                      join(resolveRoots(scope).canonicalRoot, "backup") }

\* C12 as stated: in that scenario the link plan holds an ensure-source task
\* for the canonical commands directory and a link task per file, and the
\* apply leaves a relative link per file in the client's commands directory.
C12_LinkPerFile ==
    /\ (pc = "resolve" /\ OneClientTwoCommands(fs)) =>
          /\ InSeq(EnsureSource(CanonicalCommands, "dir"), link.tasks)
          /\ \A name \in {"a.md", "b.md"} :
                \E k \in 1..Len(link.tasks) :
                    /\ link.tasks[k].type = "link"
                    /\ link.tasks[k].target = join(ClientCommands, name)
    /\ (pc = "apply" /\ idx > Len(plan.tasks) /\ OneClientTwoCommands(fsBefore)) =>
          \A name \in {"a.md", "b.md"} :
              ResolvesTo(fs, join(ClientCommands, name), join(CanonicalCommands, name))

\* C12 (amended): in that scenario the link plan holds an ensure-source task
\* for the canonical commands directory and one conflict task for the
\* client's commands directory, no task for a file in it, and the migration
\* plan copies the two files; after the apply the canonical directory holds
\* the two files, and the client's directory is one relative link to the
\* canonical directory, backed up before, when the apply was forced, and
\* untouched when it was not.
C12_DirectoryLink ==
    /\ (pc = "resolve" /\ OneClientTwoCommands(fs)) =>
          /\ InSeq(EnsureSource(CanonicalCommands, "dir"), link.tasks)
          /\ TasksFor(link, CanonicalCommands, ClientCommands)
                = { ConflictTask(CanonicalCommands, ClientCommands,
                                 "Target exists and is not a symlink (directory)",
                                 NoPath, "dir") }
          /\ \A k \in 1..Len(link.tasks) :
                link.tasks[k].type # "ensure-source" =>
                    dirname(link.tasks[k].target) # ClientCommands
          /\ \A name \in {"a.md", "b.md"} :
                \E k \in 1..Len(migrate.auto) :
                    /\ migrate.auto[k].sourcePath = join(ClientCommands, name)
                    /\ migrate.auto[k].targetPath = join(CanonicalCommands, name)
    /\ (pc = "apply" /\ idx > Len(plan.tasks) /\ OneClientTwoCommands(fsBefore)) =>
          /\ \A name \in {"a.md", "b.md"} :
                /\ isFile(fs, join(CanonicalCommands, name))
                /\ fs[join(CanonicalCommands, name)] = fsBefore[join(ClientCommands, name)]
          /\ IF force
             THEN /\ ResolvesTo(fs, ClientCommands, CanonicalCommands)
                  /\ fs[ClientCommands].text = RelativeLink(ClientCommands, CanonicalCommands)
                  /\ \E e \in 1..Len(session.backedUp) :
                        /\ session.backedUp[e].originalPath = ClientCommands
                        /\ session.backedUp[e].snap = Subtree(fsBefore, ClientCommands)
             ELSE Subtree(fs, ClientCommands) = Subtree(fsBefore, ClientCommands)

\* C12 witness: a forced apply of that scenario is through its plan
C12_Witness ==
    /\ pc = "apply" /\ idx > Len(plan.tasks) /\ force
    /\ OneClientTwoCommands(fsBefore)
    /\ isSymbolicLink(fs, ClientCommands)


\* C11: applyLinkPlan and applyMigration called without a session are
\* rejected at their entry: no task and no copy is executed, the tree is the
\* one of the call, nothing is logged and no counters are returned.
C11_NoSessionNoMutation ==
    session = NoSession =>
        /\ pc = "menu"
        /\ last.op = "rejected"
        /\ DOMAIN last = {"op", "api"}
        /\ fs = fsBefore
        /\ log = <<>>
        /\ counters = ZeroCounters

\* C11 witness: a call without a session was rejected although the plan in
\* hand had changes to make and the migration plan a copy to make
C11_Witness ==
    /\ session = NoSession
    /\ last.op = "rejected"
    /\ Len(link.changes) > 0
    /\ Len(migrate.auto) > 0

\* C19: an unforced link task proceeds only when its target is absent at
\* apply time, or it has replaceSymlink and the target still is a symbolic
\* link; otherwise the step leaves the tree and the session as they are,
\* counts the task as skipped and raises no error.
C19_UnforcedLinkRechecks ==
    [][(pc = "apply" /\ ~force /\ idx <= Len(plan.tasks) /\ idx' = idx + 1
        /\ plan.tasks[idx].type = "link") =>
          IF \/ ~pathExists(fs, plan.tasks[idx].target)
             \/ (plan.tasks[idx].replaceSymlink /\ isSymbolicLink(fs, plan.tasks[idx].target))
          THEN pc' = "apply" =>
                  /\ ResolvesTo(fs', plan.tasks[idx].target, plan.tasks[idx].source)
                  /\ counters'.applied = counters.applied + 1
                  /\ counters'.lskipped = counters.lskipped
          ELSE /\ fs' = fs
               /\ session' = session
               /\ counters' = [counters EXCEPT !.lskipped = @ + 1]
               /\ pc' = "apply"]_vars

\* C19 witness: an unforced apply has skipped a replaceSymlink task whose
\* target, a symbolic link when the plan was built, has become a regular
\* file, and a link task whose target, absent then, has become a directory
C19_Witness ==
    /\ pc = "apply" /\ ~force
    /\ counters.lskipped > 0
    /\ \E k \in 1..(idx - 1) :
          /\ plan.tasks[k].type = "link"
          /\ plan.tasks[k].replaceSymlink
          /\ isSymbolicLink(fsPlan, plan.tasks[k].target)
          /\ isFile(fs, plan.tasks[k].target)
          /\ fs[plan.tasks[k].target].c = "theirs"


\* the source task the claim C21 states for a mapping: none, one
\* ensure-source or one conflict on the source itself
SourceTaskOf(f, m) ==
    IF ~pathExists(f, m.source) THEN << EnsureSource(m.source, m.kind) >>
    ELSE IF m.kind = "file" /\ isDirectory(f, m.source)
         THEN << ConflictTask(m.source, m.source, "Expected file but found directory",
                              NoPath, m.kind) >>
    ELSE IF m.kind = "dir" /\ ~isDirectory(f, m.source)
         THEN << ConflictTask(m.source, m.source, "Expected directory but found file",
                              NoPath, m.kind) >>
    ELSE <<>>

\* the index in plan.tasks before the first task of the i-th mapping
RECURSIVE SegmentStart(_, _, _)
SegmentStart(f, ms, i) ==
    IF i = 1 THEN 0
    ELSE SegmentStart(f, ms, i - 1) + Len(SourceTaskOf(f, ms[i - 1])) + Len(ms[i - 1].targets)

\* C21: the tasks of a plan are, mapping after mapping, the source task of
\* the mapping (ensure-source when the source is absent, a conflict with the
\* reason of the kind found when it has the wrong kind, none otherwise)
\* followed by one task per target of the mapping.
C21_SourceTaskFirst ==
    View.p # EmptyPlan =>
        LET f == View.f
            ms == getMappings(f, scope, clients)
            at(i) == SegmentStart(f, ms, i)
            st(i) == SourceTaskOf(f, ms[i])
        IN /\ Len(View.p.tasks) = SegmentStart(f, ms, Len(ms) + 1)
           /\ \A i \in 1..Len(ms) :
                 /\ \A n \in 1..Len(st(i)) : View.p.tasks[at(i) + n] = st(i)[n]
                 /\ \A j \in 1..Len(ms[i].targets) :
                       LET t == View.p.tasks[at(i) + Len(st(i)) + j]
                       IN /\ t.type \in {"link", "conflict", "noop"}
                          /\ t.source = ms[i].source
                          /\ t.target = ms[i].targets[j]
                          /\ t.target # t.source

\* C21 witness: a plan over a tree where one source is absent, one is a
\* directory where a file is expected and one exists with the expected kind
C21_Witness ==
    /\ pc = "resolve"
    /\ \E k \in 1..Len(link.tasks) : link.tasks[k].type = "ensure-source"
    /\ \E k \in 1..Len(link.tasks) :
          /\ link.tasks[k].type = "conflict"
          /\ link.tasks[k].reason = "Expected file but found directory"
    /\ \E i \in 1..Len(getMappings(fs, scope, clients)) :
          SourceTaskOf(fs, getMappings(fs, scope, clients)[i]) = <<>>

\* C21 witness of the other wrong kind: a symbolic link where the source
\* directory is expected
C21_WitnessLink ==
    /\ pc = "resolve"
    /\ \E k \in 1..Len(link.tasks) :
          /\ link.tasks[k].type = "conflict"
          /\ link.tasks[k].reason = "Expected directory but found file"
          /\ isSymbolicLink(fs, link.tasks[k].source)


InstructionMappings == {"claude-md", "gemini-md", "antigravity-md"}

\* the override file of an agent-instruction mapping
OverrideName(name) == IF name = "claude-md" THEN "CLAUDE.md" ELSE "GEMINI.md"

\* the referent of the symbolic link at target, as an absolute path
Referent(f, target) == pathResolve(dirname(target), f[target].text)

\* a symbolic link whose referent is not the mapping source
PointsAway(f, x) == isSymbolicLink(f, x.target) /\ Referent(f, x.target) # x.source

\* the referent is the canonical AGENTS.md or the override file of the
\* mapping, in the directory of the source
LegacySource(f, x) ==
    /\ x.name \in InstructionMappings
    /\ Referent(f, x.target) \in { join(dirname(x.source), "AGENTS.md"),
                                   join(dirname(x.source), OverrideName(x.name)) }

\* C22: a target that is a symbolic link whose referent is not the mapping
\* source gets link with replaceSymlink = true when the mapping is claude-md,
\* gemini-md or antigravity-md and the referent is the canonical AGENTS.md or
\* the override file of the mapping; in every other case, and for every other
\* mapping, it gets a conflict "Symlink points elsewhere" with the referent.
C22_PointsElsewhere ==
    View.p # EmptyPlan =>
        \A x \in Pairs(View.f) :
            PointsAway(View.f, x) =>
                TasksFor(View.p, x.source, x.target) =
                    IF LegacySource(View.f, x)
                    THEN { LinkTask(x.source, x.target, x.kind, TRUE) }
                    ELSE { ConflictTask(x.source, x.target, "Symlink points elsewhere",
                                        IF isAbsolute(View.f[x.target].text)
                                        THEN View.f[x.target].text.parts
                                        ELSE Referent(View.f, x.target),
                                        x.kind) }

\* C22 witness: a plan over a tree where the instruction file of a client
\* links to the alternate canonical file, and the target of the agents-md
\* mapping links to the canonical CLAUDE.md
C22_Witness ==
    /\ pc = "resolve"
    /\ \E x \in Pairs(fs) : PointsAway(fs, x) /\ LegacySource(fs, x)
    /\ \E x \in Pairs(fs) :
          /\ PointsAway(fs, x)
          /\ x.name = "agents-md"
          /\ Referent(fs, x.target) = join(dirname(x.source), "CLAUDE.md")

\* C22 witness of the other cases: an instruction file linking to the
\* override of another mapping, and a commands directory linking to the
\* canonical AGENTS.md
C22_WitnessOthers ==
    /\ pc = "resolve"
    /\ \E x \in Pairs(fs) :
          /\ PointsAway(fs, x)
          /\ x.name \in InstructionMappings
          /\ IsPrefix(dirname(x.source), Referent(fs, x.target))
          /\ ~LegacySource(fs, x)
    /\ \E x \in Pairs(fs) :
          /\ PointsAway(fs, x)
          /\ x.name = "commands"
          /\ Referent(fs, x.target) = join(dirname(x.source), "AGENTS.md")


\* the indices of the tasks of a plan whose type is in types
IndicesOf(tasks, types) == { k \in 1..Len(tasks) : tasks[k].type \in types }

\* the n-th smallest member of a set of indices
Nth(S, n) == CHOOSE k \in S : Cardinality({ j \in S : j <= k }) = n

\* sq is the subsequence of tasks made of the tasks whose type is in types
IsSubsequenceOfType(sq, tasks, types) ==
    /\ Len(sq) = Cardinality(IndicesOf(tasks, types))
    /\ \A n \in 1..Len(sq) : sq[n] = tasks[Nth(IndicesOf(tasks, types), n)]

\* C29: in a plan returned by buildLinkPlan, conflicts is the subsequence of
\* the conflict tasks and changes the subsequence of the link and
\* ensure-source tasks, both in task order; no task is in both, and a task
\* in neither is a noop.
C29_PlanPartition ==
    View.p # EmptyPlan =>
        LET p == View.p
        IN /\ IsSubsequenceOfType(p.conflicts, p.tasks, {"conflict"})
           /\ IsSubsequenceOfType(p.changes, p.tasks, {"link", "ensure-source"})
           /\ \A i \in 1..Len(p.conflicts), j \in 1..Len(p.changes) :
                 p.conflicts[i] # p.changes[j]
           /\ \A k \in 1..Len(p.tasks) :
                 (~InSeq(p.tasks[k], p.conflicts) /\ ~InSeq(p.tasks[k], p.changes)) =>
                     p.tasks[k].type = "noop"

\* C29 witness: a plan holding a task of each type, the conflict between two
\* changes
C29_Witness ==
    /\ pc = "resolve"
    /\ \E k \in 1..Len(link.tasks) : link.tasks[k].type = "noop"
    /\ \E i, j, k \in 1..Len(link.tasks) :
          /\ i < j /\ j < k
          /\ link.tasks[i].type = "ensure-source"
          /\ link.tasks[j].type = "conflict"
          /\ link.tasks[k].type = "link"


\* the labels of the source tables of the scan, each table in its order
PriorityTables(sc) ==
    << << "Claude commands", "Factory commands", "Codex prompts", "Cursor commands",
          "OpenCode commands", "Gemini commands", "Antigravity commands", "Windsurf commands",
          "Aider commands", "Goose commands", "Kiro commands" >>,
       << "Claude hooks", "Factory hooks" >>,
       << "Claude skills", "Factory skills", "Codex skills", "Cursor skills", "OpenCode skills",
          IF sc = "global" THEN "GitHub Copilot skills" ELSE "GitHub skills",
          "Gemini skills", "Antigravity skills", "Windsurf skills", "Aider skills",
          "Goose skills", "Kiro skills" >>,
       << "Claude AGENTS.md", "Factory AGENTS.md", "Codex AGENTS.md", "OpenCode AGENTS.md",
          "Ampcode AGENTS.md", "Windsurf AGENTS.md", "Aider AGENTS.md", "Kiro AGENTS.md",
          "Devin AGENTS.md" >>,
       << "Claude CLAUDE.md" >>,
       << "Gemini GEMINI.md", "Antigravity GEMINI.md" >> >>

\* a is before b, or is b, in the table that holds both
NotAfter(sc, a, b) ==
    \E t \in 1..Len(PriorityTables(sc)) :
        \E i, j \in 1..Len(PriorityTables(sc)[t]) :
            /\ PriorityTables(sc)[t][i] = a
            /\ PriorityTables(sc)[t][j] = b
            /\ i <= j

\* C27: in every conflict of a scan the keep candidate is first when the
\* canonical path exists and there is no keep candidate otherwise, and the
\* copy candidates follow in the order of the source table of their
\* category; the conflicts and the auto candidates come in the order in
\* which their target paths were first met by the scan.
C27_CandidateOrder ==
    ScanFresh =>
        /\ \A k \in 1..Len(migrate.conflicts) :
              LET c == migrate.conflicts[k]
                  first == IF pathExists(fs, c.targetPath) THEN 2 ELSE 1
              IN /\ pathExists(fs, c.targetPath) => c.candidates[1].action = "keep"
                 /\ \A i \in first..Len(c.candidates) : c.candidates[i].action = "copy"
                 /\ \A i, j \in first..Len(c.candidates) :
                       i < j => NotAfter(scope, c.candidates[i].label, c.candidates[j].label)
                 /\ c.label = conflictLabel(c.targetPath, resolveRoots(scope).canonicalRoot)
        /\ LET keys == targetKeys(allCandidates(fs, scope, clients), {})
               pos(p) == CHOOSE n \in 1..Len(keys) : keys[n] = p
           IN /\ \A i, j \in 1..Len(migrate.conflicts) :
                    i < j => pos(migrate.conflicts[i].targetPath)
                                < pos(migrate.conflicts[j].targetPath)
              /\ \A i, j \in 1..Len(migrate.auto) :
                    i < j => pos(migrate.auto[i].targetPath) < pos(migrate.auto[j].targetPath)

\* C27 witness: a scan with a conflict of a keep candidate and two copy
\* candidates of different clients, and a conflict without a keep candidate
C27_Witness ==
    /\ ScanFresh
    /\ \E k \in 1..Len(migrate.conflicts) :
          /\ Len(migrate.conflicts[k].candidates) = 3
          /\ migrate.conflicts[k].candidates[1].action = "keep"
          /\ migrate.conflicts[k].candidates[2].label # migrate.conflicts[k].candidates[3].label
    /\ \E k \in 1..Len(migrate.conflicts) : migrate.conflicts[k].candidates[1].action = "copy"


\* the copy candidates of the migration plan in hand
PlanCandidates ==
    { migrate.auto[k] : k \in 1..Len(migrate.auto) }
    \cup { c \in UNION { { migrate.conflicts[k].candidates[j] :
                             j \in 1..Len(migrate.conflicts[k].candidates) } :
                         k \in 1..Len(migrate.conflicts) } : c.action = "copy" }

\* the locations of a source table that are real directories or files
RealLocations(srcs) == { srcs[i].at : i \in { n \in 1..Len(srcs) : scanned(fs, srcs[n].at) } }

\* a skill directory: it holds a SKILL.md
SkillDirsUnder(loc) == { d \in Under(fs, loc) : isDirectory(fs, d) /\ isFile(fs, join(d, "SKILL.md")) }

ValidDescriptor(d) == fs[join(d, "SKILL.md")].c \in {"skill:alpha", "skill:beta"}

\* the skill directories with an invalid descriptor under the scanned
\* skills locations
InvalidSkills ==
    UNION { { d \in SkillDirsUnder(loc) : ~ValidDescriptor(d) } :
            loc \in RealLocations(skillSources(scope, resolveRoots(scope), clients)) }

\* the items of the scanned locations that are valid: the regular files of
\* the commands and hooks directories, the skill directories with a valid
\* descriptor, the agent-instruction files
ValidItems ==
    LET roots == resolveRoots(scope)
    IN { q \in DOMAIN fs :
           /\ isFile(fs, q)
           /\ dirname(q) \in RealLocations(commandSources(roots, clients))
                             \cup RealLocations(hookSources(roots, clients)) }
       \cup UNION { { d \in SkillDirsUnder(loc) : ValidDescriptor(d) } :
                    loc \in RealLocations(skillSources(scope, roots, clients)) }
       \cup RealLocations(agentSources(scope, roots, clients))
       \cup RealLocations(claudeSources(scope, roots, clients))
       \cup RealLocations(geminiSources(scope, roots, clients))

\* C28: a skill directory with an invalid descriptor gives no candidate, and
\* the scan goes on: every valid item of every category has its candidate in
\* the plan, and every candidate comes from a valid item.
C28_InvalidSkillSkipped ==
    ScanFresh =>
        /\ \A c \in PlanCandidates : c.sourcePath \notin InvalidSkills
        /\ \A item \in ValidItems : \E c \in PlanCandidates : c.sourcePath = item
        /\ \A c \in PlanCandidates : c.sourcePath \in ValidItems

\* C28 witness: a scan of a tree where a skills directory holds an invalid
\* skill beside a valid one
C28_Witness ==
    /\ ScanFresh
    /\ \E d \in InvalidSkills :
          \E c \in PlanCandidates : c.kind = "dir" /\ dirname(c.sourcePath) = dirname(d)

\* C28 witness of another category: an invalid skill beside a command file
C28_WitnessOtherCategory ==
    /\ ScanFresh
    /\ InvalidSkills # {}
    /\ \E c \in PlanCandidates : c.kind = "file"


\* the symbolic links of the tree whose referent is in the canonical tree
LinksIntoCanonical ==
    { p \in DOMAIN fs : /\ isSymbolicLink(fs, p)
                        /\ IsPrefix(resolveRoots(scope).canonicalRoot, Referent(fs, p)) }

\* C26: every candidate of a scan comes from a path that exists and that is
\* neither a symbolic link nor below one; no candidate comes from a path at
\* or under a link into the canonical tree, nor from the canonical tree.
C26_NoCandidateFromLink ==
    ScanFresh =>
        \A c \in PlanCandidates :
            /\ pathExists(fs, c.sourcePath)
            /\ \A q \in Ancestors(c.sourcePath) : ~isSymbolicLink(fs, q)
            /\ \A p \in LinksIntoCanonical : ~IsPrefix(p, c.sourcePath)
            /\ ~IsPrefix(resolveRoots(scope).canonicalRoot, c.sourcePath)

\* C26 witness: the scan of a second run, after a forced run has replaced
\* the client's commands directory, which held files, and the client's
\* instruction file by links into the canonical tree that now holds them
C26_Witness ==
    /\ pc = "resolve" /\ last.op = "change" /\ last.force
    /\ isDirectory(fsBefore, ClientCommands)
    /\ isFile(fsBefore, join(ClientCommands, "a.md"))
    /\ ClientCommands \in LinksIntoCanonical
    /\ isFile(fs, join(CanonicalCommands, "a.md"))
    /\ \E p \in LinksIntoCanonical : fs[p].ty = "file" /\ isFile(fsBefore, p)


\* the selection the operator made for the conflict at the head of todo
HeadChoice == IF Head(todo).conflict.targetPath \in DOMAIN selections
              THEN selections[Head(todo).conflict.targetPath] ELSE NoChoice

\* what a finished copy leaves at the target of a candidate
CopyLanded(f, g, c) ==
    IF c.kind = "file" THEN isFile(g, c.targetPath) /\ g[c.targetPath] = f[c.sourcePath]
    ELSE /\ isDirectory(g, c.targetPath)
         /\ \A r \in DOMAIN Subtree(f, c.sourcePath) :
               r # <<>> => (c.targetPath \o r \in DOMAIN g
                            /\ g[c.targetPath \o r] = f[c.sourcePath \o r])

C23_WitnessNull ==
    /\ pc = "migrate" /\ todo = <<>>
    /\ counters.copied > 0 /\ counters.skipped > 0
    /\ \E k \in 1..Len(migrate.conflicts) :
          /\ selections[migrate.conflicts[k].targetPath] = NoChoice
          /\ ~pathExists(fs, migrate.conflicts[k].targetPath)


\* the candidate a step of applyMigration is about to copy, when it copies
HeadCopy ==
    IF Head(todo).of = "auto" THEN Head(todo).candidate ELSE HeadChoice

\* the events a step has added to the log
NewEvents == SubSeq(log', Len(log) + 1, Len(log'))

\* the journal entries a session holds for a path
EntriesFor(s, p) ==
    Cardinality({ e \in 1..Len(s.created) : s.created[e].path = p })
    + Cardinality({ e \in 1..Len(s.backedUp) : s.backedUp[e].originalPath = p })

\* C24: a step of applyMigration that copies a candidate journals the
\* destination first, by what is there when the step starts: a destination
\* that exists is moved into the session as a backup, a destination that
\* does not exist is recorded as created; the journal event of the
\* destination comes before every other event of the step, and the session
\* then holds exactly one entry for the destination.
C24_JournalAtApplyTime ==
    [][(pc = "migrate" /\ todo # <<>> /\ todo' = Tail(todo) /\ pc' = "migrate"
        /\ counters'.copied = counters.copied + 1) =>
          LET c == HeadCopy
              t == c.targetPath
          IN /\ IF pathExists(fs, t)
                THEN /\ session'.backedUp
                           = Append(session.backedUp,
                                    [originalPath |-> t, snap |-> Subtree(fs, t)])
                     /\ session'.created = session.created
                     /\ NewEvents[1] = Event("backup", t)
                ELSE /\ session'.created
                           = Append(session.created, [path |-> t, kind |-> c.kind])
                     /\ session'.backedUp = session.backedUp
                     /\ NewEvents[1] = Event("created", t)
             /\ \E n \in 2..Len(NewEvents) : NewEvents[n] = Event("copy", t)
             /\ \A n \in 2..Len(NewEvents) : NewEvents[n].op \notin JournalOps
             /\ EntriesFor(session', t) = 1]_vars

\* C24 witness: an auto candidate has been copied over a file that another
\* process put at its canonical path after the scan, and the session holds
\* that file as a backup
C24_Witness ==
    /\ pc = "migrate"
    /\ \E k \in 1..Len(migrate.auto) :
          LET t == migrate.auto[k].targetPath
          IN /\ ~pathExists(fsPlan, t)
             /\ isFile(fsBefore, t)
             /\ fsBefore[t].c = "theirs"
             /\ isFile(fs, t)
             /\ fs[t].c # "theirs"
             /\ \E e \in 1..Len(session.backedUp) :
                   /\ session.backedUp[e].originalPath = t
                   /\ session.backedUp[e].snap = Subtree(fsBefore, t)

\* C24 witness of the other entry: a candidate has been copied to a path
\* that did not exist and is recorded as created
C24_WitnessCreated ==
    /\ pc = "migrate"
    /\ counters.copied > 0
    /\ \E e \in 1..Len(session.created) :
          /\ ~pathExists(fsBefore, session.created[e].path)
          /\ pathExists(fs, session.created[e].path)


\* the canonical paths the migration of this apply has copied to
CopiedPaths == { log[i].path : i \in { n \in 1..Len(log) : log[n].op = "copy" } }

\* C25: when applyLinkPlan runs inside applyMigration every copy is done:
\* the loops are through, every copy event of the log precedes every event
\* of the link phase, the applied plan is the plan of the tree the copies
\* left, no ensure-source task of it names a copied path or a directory
\* above one, and an override file (CLAUDE.md, GEMINI.md) the migration put
\* in place is the source of the tasks of its mapping.
C25_PlanSeesMigratedContent ==
    pc = "apply" =>
        /\ todo = <<>>
        /\ counters.copied + counters.skipped = Len(migrate.auto) + Len(migrate.conflicts)
        /\ \A i, j \in 1..Len(log) :
              (log[i].op = "copy" /\ log[j].op \in {"symlink", "write", "remove"}) => i < j
        /\ plan = buildLinkPlan(fsPlan, scope, clients)
        /\ \A t \in CopiedPaths :
              /\ pathExists(fsPlan, t)
              /\ \A k \in 1..Len(plan.tasks) :
                    plan.tasks[k].type = "ensure-source" => ~IsPrefix(plan.tasks[k].path, t)
        /\ \A x \in Pairs(fsPlan) :
              (x.name \in InstructionMappings
               /\ join(resolveRoots(scope).canonicalRoot, OverrideName(x.name)) \in CopiedPaths) =>
                  /\ x.source = join(resolveRoots(scope).canonicalRoot, OverrideName(x.name))
                  /\ TasksFor(plan, x.source, x.target) # {}
                  /\ \A k \in 1..Len(plan.tasks) :
                        (plan.tasks[k].type # "ensure-source" /\ plan.tasks[k].target = x.target) =>
                            plan.tasks[k].source = x.source

\* C25 witness: the migration of this apply has copied the client's
\* CLAUDE.md to the canonical tree, where there was none, and the applied
\* plan takes it as the source, while the plan shown before the apply took
\* AGENTS.md
C25_Witness ==
    LET K == resolveRoots(scope).canonicalRoot
    IN /\ pc = "apply" /\ scope = "global"
       /\ ~pathExists(fsBefore, join(K, "CLAUDE.md"))
       /\ join(K, "CLAUDE.md") \in CopiedPaths
       /\ \E k \in 1..Len(plan.tasks) :
             plan.tasks[k].type # "ensure-source" /\ plan.tasks[k].source = join(K, "CLAUDE.md")
       /\ \E k \in 1..Len(link.tasks) :
             /\ link.tasks[k].type # "ensure-source"
             /\ link.tasks[k].source = join(K, "AGENTS.md")
             /\ link.tasks[k].target = join(resolveRoots(scope).claudeRoot, "CLAUDE.md")


\* C30: within one applyLinkPlan run backupPath acts at most once per
\* target path: the session holds no two backup entries for one original
\* path, and no backup is taken of a path after this run has put a link
\* there.
C30_BackupOncePerTarget ==
    pc = "apply" =>
        /\ \A a, b \in 1..Len(session.backedUp) :
              session.backedUp[a].originalPath = session.backedUp[b].originalPath => a = b
        /\ \A i, j \in 1..Len(log) :
              (i < j /\ log[i].op = "symlink" /\ log[j].op = "backup") =>
                  log[i].path # log[j].path


\* C31: in applyLinkPlan, also after another process changed the tree
\* between the plan and the apply, a link or conflict task that finds its
\* target absent and leaves a symbolic link there records the target in the
\* session as a created path.
C31_CreatedLinksRecorded ==
    [][(pc = "apply" /\ idx <= Len(plan.tasks) /\ idx' = idx + 1
        /\ plan.tasks[idx].type \in {"link", "conflict"}
        /\ ~pathExists(fs, plan.tasks[idx].target)
        /\ isSymbolicLink(fs', plan.tasks[idx].target)) =>
          \E e \in 1..Len(session'.created) :
              /\ session'.created[e].path = plan.tasks[idx].target
              /\ session'.created[e].kind = "symlink"]_vars


\* C32: every path an applyMigration call records in the session as
\* created was absent from the tree when the call started.
C32_CreatedWasAbsent ==
    \A e \in 1..Len(session.created) : ~pathExists(fsBefore, session.created[e].path)


\* C32 witness: a run has ended whose session records as created a
\* migration destination, an ensure-source path and a new link target, and
\* which also moved into the backup something that stood in the tree before
C32_Witness ==
    /\ pc = "apply" /\ idx > Len(plan.tasks)
    /\ Len(session.backedUp) > 0
    /\ \E k \in 1..Len(migrate.auto) : \E e \in 1..Len(session.created) :
          /\ session.created[e].path = migrate.auto[k].targetPath
          /\ pathExists(fs, migrate.auto[k].targetPath)
    /\ \E k \in 1..Len(plan.tasks) : \E e \in 1..Len(session.created) :
          /\ plan.tasks[k].type = "ensure-source"
          /\ session.created[e].path = plan.tasks[k].path
          /\ pathExists(fs, plan.tasks[k].path)
    /\ \E k \in 1..Len(plan.tasks) : \E e \in 1..Len(session.created) :
          /\ plan.tasks[k].type = "link"
          /\ session.created[e] = [path |-> plan.tasks[k].target, kind |-> "symlink"]
          /\ isSymbolicLink(fs, plan.tasks[k].target)


\* the target paths a migration plan names, one per auto candidate and one
\* per conflict, in plan order
PlacesOf(mp) ==
    [i \in 1..Len(mp.auto) |-> mp.auto[i].targetPath]
    \o [i \in 1..Len(mp.conflicts) |-> mp.conflicts[i].targetPath]

\* C33: in the plan scanMigration returns each canonical target path stands
\* in one place only, every auto candidate is a copy with a source path,
\* every conflict has two candidates or more, all for the conflict's target,
\* and at most one of them is a keep.
C33_PlanShape ==
    /\ \A a, b \in 1..Len(PlacesOf(migrate)) :
          PlacesOf(migrate)[a] = PlacesOf(migrate)[b] => a = b
    /\ \A k \in 1..Len(migrate.auto) :
          /\ migrate.auto[k].action = "copy"
          /\ migrate.auto[k].sourcePath # NoPath
    /\ \A k \in 1..Len(migrate.conflicts) :
          LET list == migrate.conflicts[k].candidates
          IN /\ Len(list) >= 2
             /\ \A j \in 1..Len(list) : list[j].targetPath = migrate.conflicts[k].targetPath
             /\ \A i, j \in 1..Len(list) :
                   (list[i].action = "keep" /\ list[j].action = "keep") => i = j

\* C33 witness: one scan returned an auto candidate for a canonical path
\* that does not exist and a conflict made of the existing canonical path,
\* as the keep candidate, and one source to copy
C33_Witness ==
    /\ pc = "resolve"
    /\ \E k \in 1..Len(migrate.auto) :
          /\ ~pathExists(fs, migrate.auto[k].targetPath)
          /\ scanned(fs, migrate.auto[k].sourcePath)
    /\ \E k \in 1..Len(migrate.conflicts) :
          /\ Len(migrate.conflicts[k].candidates) = 2
          /\ migrate.conflicts[k].candidates[1].action = "keep"
          /\ migrate.conflicts[k].candidates[2].action = "copy"
          /\ pathExists(fs, migrate.conflicts[k].targetPath)


\* the conflict tasks among the first n that a forced run acts on: the
\* target is not the source and the task carries a kind
ForceApplied(tasks, n, f) ==
    {k \in 1..n : /\ f
                  /\ tasks[k].type = "conflict"
                  /\ tasks[k].target # tasks[k].source
                  /\ tasks[k].kind \in {"file", "dir"}}

\* C34: after each task of an applyLinkPlan run, and so when the run
\* completes, applied + skipped + conflicts is the number of tasks done
\* plus the number of conflict tasks that were force-applied (none when
\* force is off), conflicts is the number of conflict tasks, every noop is
\* among the skipped, every ensure-source among the applied, and backedUp
\* is at most applied.
C34_EveryTaskCounted ==
    pc = "apply" =>
        LET n == idx - 1
        IN /\ counters.applied + counters.lskipped + counters.conflicts
                 = n + Cardinality(ForceApplied(plan.tasks, n, force))
           /\ counters.conflicts = CountType(plan.tasks, n, "conflict")
           /\ counters.lskipped >= CountType(plan.tasks, n, "noop")
           /\ counters.applied >= CountType(plan.tasks, n, "ensure-source")
                                  + Cardinality(ForceApplied(plan.tasks, n, force))
           /\ counters.backedUp <= counters.applied

\* C34 witness: a forced run has completed on a plan with a noop, an
\* ensure-source, a link and a force-applied conflict, and has taken a
\* backup
C34_Witness ==
    /\ pc = "apply" /\ idx > Len(plan.tasks) /\ force
    /\ \A ty \in {"noop", "ensure-source", "link"} :
          CountType(plan.tasks, Len(plan.tasks), ty) > 0
    /\ ForceApplied(plan.tasks, Len(plan.tasks), force) # {}
    /\ counters.backedUp > 0
    /\ counters.lskipped > 0

\* C34 witness: an unforced run has completed on a plan with a conflict and
\* has skipped a link task whose target it found in place
C34_WitnessUnforced ==
    /\ pc = "apply" /\ idx > Len(plan.tasks) /\ ~force
    /\ counters.conflicts > 0
    /\ counters.lskipped > CountType(plan.tasks, Len(plan.tasks), "noop")
    /\ counters.applied > 0

====
